---- MODULE Spec2Model ----
(***************************************************************************)
(* Model of the Trello MCP gateway: the remote operation client            *)
(* (src/src/client.ts), the tool handlers built on it and the per-request  *)
(* server construction (src/unnamed/part_004).                             *)
(*                                                                         *)
(* A JavaScript value is a record V(t, s, n, b, a): t is the type tag,     *)
(* s the string, n the number, b the boolean and a the array of strings.   *)
(***************************************************************************)
EXTENDS Integers, Sequences, FiniteSets, TLC

\* ------------------------------------------------------------------------
\* Bounds of the model
\* ------------------------------------------------------------------------
\* number of inbound requests that can be open at the same time
MaxInbound == 2
\* numeric positions and limits are drawn from 0..MaxNum
MaxNum == 1

\* ------------------------------------------------------------------------
\* JavaScript values
\* ------------------------------------------------------------------------
V(t, s, n, b, a) == [t |-> t, s |-> s, n |-> n, b |-> b, a |-> a]
Undefined == V("undefined", "", 0, FALSE, <<>>)
Null == V("null", "", 0, FALSE, <<>>)
Str(x) == V("string", x, 0, FALSE, <<>>)
Num(i) == V("number", "", i, FALSE, <<>>)
Bool(x) == V("boolean", "", 0, x, <<>>)
Arr(q) == V("array", "", 0, FALSE, q)

\* a property of an input object; a property never set reads as undefined
Get(input, k) == IF k \in DOMAIN input THEN input[k] ELSE Undefined

\* JavaScript truthiness, the test of `if (input.x)`
Truthy(v) ==
  CASE v.t = "string" -> v.s # ""
    [] v.t = "number" -> v.n # 0
    [] v.t = "boolean" -> v.b
    [] v.t = "array" -> TRUE
    [] OTHER -> FALSE

RECURSIVE join(_)
\* Array.prototype.join(',')
join(q) ==
  IF Len(q) = 0 THEN ""
  ELSE IF Len(q) = 1 THEN q[1]
  ELSE q[1] \o "," \o join(Tail(q))

\* String(value) and the implicit conversion of a template literal
String(v) ==
  CASE v.t = "string" -> v.s
    [] v.t = "number" -> ToString(v.n)
    [] v.t = "boolean" -> (IF v.b THEN "true" ELSE "false")
    [] v.t = "array" -> join(v.a)
    [] v.t = "null" -> "null"
    [] OTHER -> "undefined"

\* `x?.length` of an optional array
HasLength(v) == v.t = "array" /\ Len(v.a) > 0

\* ------------------------------------------------------------------------
\* Building a Record<string, string>
\* ------------------------------------------------------------------------
\* `if (cond) params[k] = v;`
If(cond, k, v) == IF cond THEN {<<k, v>>} ELSE {}
\* `k: v` of an object literal
Set(k, v) == {<<k, v>>}
\* the object holding the assignments made
Obj(S) == [k \in {p[1] : p \in S} |-> (CHOOSE p \in S : p[1] = k)[2]]
NoParams == Obj({})

\* the value of options.body when the call passes none
NoBody == "<no body>"

\* what an operation hands to the transport helper
Call(endpoint, method, body, extraParams) ==
  [endpoint |-> endpoint, method |-> method, body |-> body, extraParams |-> extraParams]

\* ------------------------------------------------------------------------
\* HTTP request helper
\* ------------------------------------------------------------------------
API_BASE_URL == "https://api.trello.com/1"

getAuthParams(credentials) ==
  Obj(Set("key", credentials.apiKey) \cup Set("token", credentials.token))

\* request() letting the parameters of the operation take the place of the credentials
requestSend_replace(credentials, c) ==
  LET auth == getAuthParams(credentials)
      kept == {k \in DOMAIN c.extraParams : c.extraParams[k] # ""}
      params == IF kept = {} THEN auth ELSE [k \in kept |-> c.extraParams[k]]
  IN [base |-> API_BASE_URL,
      endpoint |-> c.endpoint,
      params |-> params,
      method |-> c.method,
      body |-> c.body,
      contentType |-> "application/json"]

\* request(), up to and including the call of fetch: the outbound request
requestSend(credentials, c) ==
  LET auth == getAuthParams(credentials)
      kept == {k \in DOMAIN c.extraParams : c.extraParams[k] # ""}
      params == [k \in kept |-> c.extraParams[k]] @@ auth
  IN [base |-> API_BASE_URL,
      endpoint |-> c.endpoint,
      params |-> params,
      method |-> c.method,
      body |-> c.body,
      contentType |-> "application/json"]

\* ------------------------------------------------------------------------
\* Client operations.  a is the argument object of the call: the positional
\* arguments under their parameter names together with the properties of the
\* input object.
\* ------------------------------------------------------------------------
Defined(v) == v.t # "undefined"
\* a default parameter value: `filter = 'open'`
Default(v, d) == IF Defined(v) THEN v ELSE d
\* `${x}` of an argument
T(a, k) == String(Get(a, k))
\* `x === null ? '' : x`
NullToEmpty(v) == IF v.t = "null" THEN "" ELSE String(v)
\* `x || ''`
OrEmpty(v) == IF Truthy(v) THEN String(v) ELSE ""
\* the entries of a field copied under a guard
IfTruthy(a, f, k) == If(Truthy(Get(a, f)), k, String(Get(a, f)))
IfDefined(a, f, k) == If(Defined(Get(a, f)), k, String(Get(a, f)))
IfLength(a, f, k) == If(HasLength(Get(a, f)), k, join(Get(a, f).a))

getMe(a) == Call("/members/me", "GET", NoBody, NoParams)

getMember(a) == Call("/members/" \o T(a, "idOrUsername"), "GET", NoBody, NoParams)

getMemberBoards(a) ==
  Call("/members/" \o T(a, "idOrUsername") \o "/boards", "GET", NoBody,
       Obj(Set("filter", String(Default(Get(a, "filter"), Str("open"))))))

getMemberCards(a) == Call("/members/" \o T(a, "idOrUsername") \o "/cards", "GET", NoBody, NoParams)

getMemberOrganizations(a) ==
  Call("/members/" \o T(a, "idOrUsername") \o "/organizations", "GET", NoBody, NoParams)

listBoards(a) ==
  getMemberBoards([idOrUsername |-> Str("me"),
                   filter |-> Default(Get(a, "filter"), Str("open"))])

getBoard(a) == Call("/boards/" \o T(a, "boardId"), "GET", NoBody, NoParams)

createBoard(a) ==
  Call("/boards", "POST", NoBody,
       Obj(Set("name", T(a, "name"))
           \cup IfTruthy(a, "desc", "desc")
           \cup IfTruthy(a, "idOrganization", "idOrganization")
           \cup IfTruthy(a, "idBoardSource", "idBoardSource")
           \cup IfTruthy(a, "keepFromSource", "keepFromSource")
           \cup IfTruthy(a, "powerUps", "powerUps")
           \cup IfTruthy(a, "prefs_permissionLevel", "prefs_permissionLevel")
           \cup IfTruthy(a, "prefs_voting", "prefs_voting")
           \cup IfTruthy(a, "prefs_comments", "prefs_comments")
           \cup IfTruthy(a, "prefs_invitations", "prefs_invitations")
           \cup IfDefined(a, "prefs_selfJoin", "prefs_selfJoin")
           \cup IfDefined(a, "prefs_cardCovers", "prefs_cardCovers")
           \cup IfTruthy(a, "prefs_background", "prefs_background")
           \cup IfTruthy(a, "prefs_cardAging", "prefs_cardAging")
           \cup IfDefined(a, "defaultLabels", "defaultLabels")
           \cup IfDefined(a, "defaultLists", "defaultLists")))

updateBoard(a) ==
  Call("/boards/" \o T(a, "boardId"), "PUT", NoBody,
       Obj(IfTruthy(a, "name", "name")
           \cup IfDefined(a, "desc", "desc")
           \cup IfDefined(a, "closed", "closed")
           \cup IfDefined(a, "subscribed", "subscribed")
           \cup IfTruthy(a, "idOrganization", "idOrganization")
           \cup IfTruthy(a, "prefs_permissionLevel", "prefs/permissionLevel")
           \cup IfDefined(a, "prefs_selfJoin", "prefs/selfJoin")
           \cup IfDefined(a, "prefs_cardCovers", "prefs/cardCovers")
           \cup IfDefined(a, "prefs_hideVotes", "prefs/hideVotes")
           \cup IfTruthy(a, "prefs_invitations", "prefs/invitations")
           \cup IfTruthy(a, "prefs_voting", "prefs/voting")
           \cup IfTruthy(a, "prefs_comments", "prefs/comments")
           \cup IfTruthy(a, "prefs_background", "prefs/background")
           \cup IfTruthy(a, "prefs_cardAging", "prefs/cardAging")
           \cup IfDefined(a, "prefs_calendarFeedEnabled", "prefs/calendarFeedEnabled")
           \cup IfTruthy(a, "labelNames_green", "labelNames/green")
           \cup IfTruthy(a, "labelNames_yellow", "labelNames/yellow")
           \cup IfTruthy(a, "labelNames_orange", "labelNames/orange")
           \cup IfTruthy(a, "labelNames_red", "labelNames/red")
           \cup IfTruthy(a, "labelNames_purple", "labelNames/purple")
           \cup IfTruthy(a, "labelNames_blue", "labelNames/blue")))

deleteBoard(a) == Call("/boards/" \o T(a, "boardId"), "DELETE", NoBody, NoParams)

getBoardMembers(a) == Call("/boards/" \o T(a, "boardId") \o "/members", "GET", NoBody, NoParams)

getBoardLists(a) ==
  Call("/boards/" \o T(a, "boardId") \o "/lists", "GET", NoBody,
       Obj(Set("filter", String(Default(Get(a, "filter"), Str("open"))))))

\* getBoardCards sending a filter only when the caller gave one
getBoardCards_noDefault(a) ==
  Call("/boards/" \o T(a, "boardId") \o "/cards", "GET", NoBody,
       Obj(IfDefined(a, "filter", "filter")))

getBoardCards(a) ==
  Call("/boards/" \o T(a, "boardId") \o "/cards", "GET", NoBody,
       Obj(Set("filter", String(Default(Get(a, "filter"), Str("open"))))))

getBoardLabels(a) == Call("/boards/" \o T(a, "boardId") \o "/labels", "GET", NoBody, NoParams)

getBoardActions(a) ==
  Call("/boards/" \o T(a, "boardId") \o "/actions", "GET", NoBody,
       Obj(Set("limit", String(Default(Get(a, "limit"), Num(50))))))

getBoardChecklists(a) == Call("/boards/" \o T(a, "boardId") \o "/checklists", "GET", NoBody, NoParams)

getBoardCustomFields(a) ==
  Call("/boards/" \o T(a, "boardId") \o "/customFields", "GET", NoBody, NoParams)

addMemberToBoard(a) ==
  Call("/boards/" \o T(a, "boardId") \o "/members/" \o T(a, "memberId"), "PUT", NoBody,
       Obj(Set("type", String(Default(Get(a, "type"), Str("normal"))))))

removeMemberFromBoard(a) ==
  Call("/boards/" \o T(a, "boardId") \o "/members/" \o T(a, "memberId"), "DELETE", NoBody, NoParams)

getList(a) == Call("/lists/" \o T(a, "listId"), "GET", NoBody, NoParams)

\* a createList that sends the position under `if (input.pos)`
createList_posTruthy(a) ==
  Call("/lists", "POST", NoBody,
       Obj(Set("name", T(a, "name"))
           \cup Set("idBoard", T(a, "idBoard"))
           \cup IfTruthy(a, "idListSource", "idListSource")
           \cup IfTruthy(a, "pos", "pos")))

createList(a) ==
  Call("/lists", "POST", NoBody,
       Obj(Set("name", T(a, "name"))
           \cup Set("idBoard", T(a, "idBoard"))
           \cup IfTruthy(a, "idListSource", "idListSource")
           \cup IfDefined(a, "pos", "pos")))

updateList(a) ==
  Call("/lists/" \o T(a, "listId"), "PUT", NoBody,
       Obj(IfTruthy(a, "name", "name")
           \cup IfDefined(a, "closed", "closed")
           \cup IfTruthy(a, "idBoard", "idBoard")
           \cup IfDefined(a, "pos", "pos")
           \cup IfDefined(a, "subscribed", "subscribed")))

archiveList(a) == updateList([listId |-> Get(a, "listId"), closed |-> Bool(TRUE)])

unarchiveList(a) == updateList([listId |-> Get(a, "listId"), closed |-> Bool(FALSE)])

getListCards(a) ==
  Call("/lists/" \o T(a, "listId") \o "/cards", "GET", NoBody,
       Obj(Set("filter", String(Default(Get(a, "filter"), Str("open"))))))

archiveAllCardsInList(a) ==
  Call("/lists/" \o T(a, "listId") \o "/archiveAllCards", "POST", NoBody, NoParams)

moveAllCardsInList(a) ==
  Call("/lists/" \o T(a, "listId") \o "/moveAllCards", "POST", NoBody,
       Obj(Set("idBoard", T(a, "idBoard")) \cup Set("idList", T(a, "idList"))))

getCard(a) ==
  Call("/cards/" \o T(a, "cardId"), "GET", NoBody,
       Obj(Set("checklists", "all") \cup Set("attachments", "true")))

\* createCard writing pos whether or not the caller gave one
createCard_posAlways(a) ==
  Call("/cards", "POST", NoBody,
       Obj(Set("idList", T(a, "idList"))
           \cup Set("name", T(a, "name"))
           \cup IfTruthy(a, "desc", "desc")
           \cup Set("pos", T(a, "pos"))
           \cup IfTruthy(a, "due", "due")
           \cup IfTruthy(a, "start", "start")
           \cup IfDefined(a, "dueComplete", "dueComplete")
           \cup IfLength(a, "idMembers", "idMembers")
           \cup IfLength(a, "idLabels", "idLabels")
           \cup IfTruthy(a, "urlSource", "urlSource")
           \cup IfTruthy(a, "idCardSource", "idCardSource")
           \cup IfTruthy(a, "keepFromSource", "keepFromSource")
           \cup IfTruthy(a, "address", "address")
           \cup IfTruthy(a, "locationName", "locationName")
           \cup IfTruthy(a, "coordinates", "coordinates")))

createCard(a) ==
  Call("/cards", "POST", NoBody,
       Obj(Set("idList", T(a, "idList"))
           \cup Set("name", T(a, "name"))
           \cup IfTruthy(a, "desc", "desc")
           \cup IfDefined(a, "pos", "pos")
           \cup IfTruthy(a, "due", "due")
           \cup IfTruthy(a, "start", "start")
           \cup IfDefined(a, "dueComplete", "dueComplete")
           \cup IfLength(a, "idMembers", "idMembers")
           \cup IfLength(a, "idLabels", "idLabels")
           \cup IfTruthy(a, "urlSource", "urlSource")
           \cup IfTruthy(a, "idCardSource", "idCardSource")
           \cup IfTruthy(a, "keepFromSource", "keepFromSource")
           \cup IfTruthy(a, "address", "address")
           \cup IfTruthy(a, "locationName", "locationName")
           \cup IfTruthy(a, "coordinates", "coordinates")))

updateCard(a) ==
  Call("/cards/" \o T(a, "cardId"), "PUT", NoBody,
       Obj(IfTruthy(a, "name", "name")
           \cup IfDefined(a, "desc", "desc")
           \cup IfDefined(a, "closed", "closed")
           \cup IfTruthy(a, "idList", "idList")
           \cup IfTruthy(a, "idBoard", "idBoard")
           \cup IfDefined(a, "pos", "pos")
           \cup If(Defined(Get(a, "due")), "due", NullToEmpty(Get(a, "due")))
           \cup If(Defined(Get(a, "start")), "start", NullToEmpty(Get(a, "start")))
           \cup IfDefined(a, "dueComplete", "dueComplete")
           \cup IfDefined(a, "subscribed", "subscribed")))

deleteCard(a) == Call("/cards/" \o T(a, "cardId"), "DELETE", NoBody, NoParams)

archiveCard(a) == updateCard([cardId |-> Get(a, "cardId"), closed |-> Bool(TRUE)])

\* unarchiveCard leaving the false flag out
unarchiveCard_omitted(a) == updateCard([cardId |-> Get(a, "cardId")])

unarchiveCard(a) == updateCard([cardId |-> Get(a, "cardId"), closed |-> Bool(FALSE)])

\* moveCard forgetting the destination board
moveCard_noBoard(a) ==
  updateCard([cardId |-> Get(a, "cardId"), idList |-> Get(a, "idList")])

moveCard(a) ==
  updateCard([cardId |-> Get(a, "cardId"),
              idList |-> Get(a, "idList"),
              idBoard |-> IF Truthy(Get(a, "idBoard")) THEN Get(a, "idBoard") ELSE Undefined])

getCardActions(a) ==
  Call("/cards/" \o T(a, "cardId") \o "/actions", "GET", NoBody,
       Obj(Set("limit", String(Default(Get(a, "limit"), Num(50))))))

getCardAttachments(a) == Call("/cards/" \o T(a, "cardId") \o "/attachments", "GET", NoBody, NoParams)

addAttachmentToCard(a) ==
  Call("/cards/" \o T(a, "cardId") \o "/attachments", "POST", NoBody,
       Obj(IfTruthy(a, "name", "name")
           \cup IfTruthy(a, "url", "url")
           \cup IfTruthy(a, "mimeType", "mimeType")
           \cup IfDefined(a, "setCover", "setCover")))

deleteAttachment(a) ==
  Call("/cards/" \o T(a, "cardId") \o "/attachments/" \o T(a, "attachmentId"), "DELETE", NoBody, NoParams)

getCardChecklists(a) == Call("/cards/" \o T(a, "cardId") \o "/checklists", "GET", NoBody, NoParams)

addCommentToCard(a) ==
  Call("/cards/" \o T(a, "cardId") \o "/actions/comments", "POST", NoBody,
       Obj(Set("text", T(a, "text"))))

getCardComments(a) ==
  Call("/cards/" \o T(a, "cardId") \o "/actions", "GET", NoBody,
       Obj(Set("filter", "commentCard")))

updateComment(a) ==
  Call("/cards/" \o T(a, "cardId") \o "/actions/" \o T(a, "actionId") \o "/comments", "PUT", NoBody,
       Obj(Set("text", T(a, "text"))))

deleteComment(a) ==
  Call("/cards/" \o T(a, "cardId") \o "/actions/" \o T(a, "actionId") \o "/comments", "DELETE", NoBody, NoParams)

addLabelToCard(a) ==
  Call("/cards/" \o T(a, "cardId") \o "/idLabels", "POST", NoBody,
       Obj(Set("value", T(a, "labelId"))))

removeLabelFromCard(a) ==
  Call("/cards/" \o T(a, "cardId") \o "/idLabels/" \o T(a, "labelId"), "DELETE", NoBody, NoParams)

addMemberToCard(a) ==
  Call("/cards/" \o T(a, "cardId") \o "/idMembers", "POST", NoBody,
       Obj(Set("value", T(a, "memberId"))))

removeMemberFromCard(a) ==
  Call("/cards/" \o T(a, "cardId") \o "/idMembers/" \o T(a, "memberId"), "DELETE", NoBody, NoParams)

getCardCustomFieldItems(a) ==
  Call("/cards/" \o T(a, "cardId") \o "/customFieldItems", "GET", NoBody, NoParams)

\* an object value: its own properties in insertion order, as <<key, value>>
ObjV(pairs) == V("object", "", 0, FALSE, pairs)

RECURSIVE JSONstringify(_)
RECURSIVE stringifyProps(_)
RECURSIVE stringifyItems(_)
\* JSON.stringify(value); a property holding undefined is left out
JSONstringify(v) ==
  CASE v.t = "string" -> "\"" \o v.s \o "\""
    [] v.t = "number" -> ToString(v.n)
    [] v.t = "boolean" -> (IF v.b THEN "true" ELSE "false")
    [] v.t = "object" -> "{" \o stringifyProps(SelectSeq(v.a, LAMBDA p : Defined(p[2]))) \o "}"
    [] v.t = "list" -> "[" \o stringifyItems(v.a) \o "]"
    [] OTHER -> "null"
stringifyItems(q) ==
  IF Len(q) = 0 THEN ""
  ELSE IF Len(q) = 1 THEN JSONstringify(q[1])
  ELSE LET half == Len(q) \div 2
       IN stringifyItems(SubSeq(q, 1, half)) \o "," \o stringifyItems(SubSeq(q, half + 1, Len(q)))
stringifyProps(q) ==
  IF Len(q) = 0 THEN ""
  ELSE "\"" \o q[1][1] \o "\":" \o JSONstringify(q[1][2])
       \o (IF Len(q) = 1 THEN "" ELSE "," \o stringifyProps(Tail(q)))

setCardCustomFieldValue(a) ==
  Call("/cards/" \o T(a, "cardId") \o "/customField/" \o T(a, "customFieldId") \o "/item", "PUT",
       JSONstringify(Get(a, "value")), NoParams)

getLabel(a) == Call("/labels/" \o T(a, "labelId"), "GET", NoBody, NoParams)

createLabel(a) ==
  Call("/labels", "POST", NoBody,
       Obj(Set("name", T(a, "name"))
           \cup Set("idBoard", T(a, "idBoard"))
           \cup IfTruthy(a, "color", "color")))

\* an updateLabel that sends the text of the color it is given, null as 'null'
updateLabel_nullText(a) ==
  Call("/labels/" \o T(a, "labelId"), "PUT", NoBody,
       Obj(IfDefined(a, "name", "name")
           \cup IfDefined(a, "color", "color")))

updateLabel(a) ==
  Call("/labels/" \o T(a, "labelId"), "PUT", NoBody,
       Obj(IfDefined(a, "name", "name")
           \cup If(Defined(Get(a, "color")), "color", OrEmpty(Get(a, "color")))))

deleteLabel(a) == Call("/labels/" \o T(a, "labelId"), "DELETE", NoBody, NoParams)

getChecklist(a) ==
  Call("/checklists/" \o T(a, "checklistId"), "GET", NoBody,
       Obj(Set("checkItems", "all")))

createChecklist(a) ==
  Call("/checklists", "POST", NoBody,
       Obj(Set("idCard", T(a, "idCard"))
           \cup IfTruthy(a, "name", "name")
           \cup IfDefined(a, "pos", "pos")
           \cup IfTruthy(a, "idChecklistSource", "idChecklistSource")))

updateChecklist(a) ==
  Call("/checklists/" \o T(a, "checklistId"), "PUT", NoBody,
       Obj(Set("name", T(a, "name"))))

deleteChecklist(a) == Call("/checklists/" \o T(a, "checklistId"), "DELETE", NoBody, NoParams)

getCheckItems(a) ==
  Call("/checklists/" \o T(a, "checklistId") \o "/checkItems", "GET", NoBody, NoParams)

createCheckItem(a) ==
  Call("/checklists/" \o T(a, "checklistId") \o "/checkItems", "POST", NoBody,
       Obj(Set("name", T(a, "name"))
           \cup IfDefined(a, "pos", "pos")
           \cup IfDefined(a, "checked", "checked")
           \cup IfTruthy(a, "due", "due")
           \cup IfTruthy(a, "idMember", "idMember")))

updateCheckItem(a) ==
  Call("/cards/" \o T(a, "cardId") \o "/checkItem/" \o T(a, "checkItemId"), "PUT", NoBody,
       Obj(IfTruthy(a, "name", "name")
           \cup IfTruthy(a, "state", "state")
           \cup IfDefined(a, "pos", "pos")
           \cup If(Defined(Get(a, "due")), "due", NullToEmpty(Get(a, "due")))
           \cup If(Defined(Get(a, "idMember")), "idMember", NullToEmpty(Get(a, "idMember")))))

deleteCheckItem(a) ==
  Call("/checklists/" \o T(a, "checklistId") \o "/checkItems/" \o T(a, "checkItemId"), "DELETE",
       NoBody, NoParams)

getCustomField(a) == Call("/customFields/" \o T(a, "customFieldId"), "GET", NoBody, NoParams)

createCustomField(a) ==
  Call("/customFields", "POST", NoBody,
       Obj(Set("idModel", T(a, "idModel"))
           \cup Set("modelType", T(a, "modelType"))
           \cup Set("name", T(a, "name"))
           \cup Set("type", T(a, "type"))
           \cup IfDefined(a, "pos", "pos")
           \cup IfDefined(a, "display_cardFront", "display_cardFront")))

updateCustomField(a) ==
  Call("/customFields/" \o T(a, "customFieldId"), "PUT", NoBody,
       Obj(IfTruthy(a, "name", "name")
           \cup IfDefined(a, "pos", "pos")
           \cup IfDefined(a, "display_cardFront", "display/cardFront")))

deleteCustomField(a) == Call("/customFields/" \o T(a, "customFieldId"), "DELETE", NoBody, NoParams)

getCustomFieldOptions(a) ==
  Call("/customFields/" \o T(a, "customFieldId") \o "/options", "GET", NoBody, NoParams)

\* addCustomFieldOption passing its fields in the query like the other operations
addCustomFieldOption_query(a) ==
  Call("/customFields/" \o T(a, "customFieldId") \o "/options", "POST", NoBody,
       Obj(Set("value", T(a, "value")) \cup IfTruthy(a, "color", "color")))

addCustomFieldOption(a) ==
  LET body == ObjV(<<<<"value", ObjV(<<<<"text", Get(a, "value")>>>>)>>,
                     <<"color", IF Truthy(Get(a, "color")) THEN Get(a, "color") ELSE Undefined>>>>)
  IN Call("/customFields/" \o T(a, "customFieldId") \o "/options", "POST",
          JSONstringify(body), NoParams)

deleteCustomFieldOption(a) ==
  Call("/customFields/" \o T(a, "customFieldId") \o "/options/" \o T(a, "optionId"), "DELETE",
       NoBody, NoParams)

getOrganization(a) == Call("/organizations/" \o T(a, "orgId"), "GET", NoBody, NoParams)

createOrganization(a) ==
  Call("/organizations", "POST", NoBody,
       Obj(Set("displayName", T(a, "displayName"))
           \cup IfTruthy(a, "desc", "desc")
           \cup IfTruthy(a, "name", "name")
           \cup IfTruthy(a, "website", "website")))

updateOrganization(a) ==
  Call("/organizations/" \o T(a, "orgId"), "PUT", NoBody,
       Obj(IfTruthy(a, "name", "name")
           \cup IfTruthy(a, "displayName", "displayName")
           \cup IfDefined(a, "desc", "desc")
           \cup If(Defined(Get(a, "website")), "website", OrEmpty(Get(a, "website")))
           \cup IfTruthy(a, "prefs_permissionLevel", "prefs/permissionLevel")
           \cup IfTruthy(a, "prefs_orgInviteRestrict", "prefs/orgInviteRestrict")
           \cup IfTruthy(a, "prefs_boardVisibilityRestrict_private", "prefs/boardVisibilityRestrict/private")
           \cup IfTruthy(a, "prefs_boardVisibilityRestrict_org", "prefs/boardVisibilityRestrict/org")
           \cup IfTruthy(a, "prefs_boardVisibilityRestrict_public", "prefs/boardVisibilityRestrict/public")))

deleteOrganization(a) == Call("/organizations/" \o T(a, "orgId"), "DELETE", NoBody, NoParams)

getOrganizationMembers(a) == Call("/organizations/" \o T(a, "orgId") \o "/members", "GET", NoBody, NoParams)

getOrganizationBoards(a) ==
  Call("/organizations/" \o T(a, "orgId") \o "/boards", "GET", NoBody,
       Obj(Set("filter", String(Default(Get(a, "filter"), Str("open"))))))

getAction(a) == Call("/actions/" \o T(a, "actionId"), "GET", NoBody, NoParams)

search(a) ==
  Call("/search", "GET", NoBody,
       Obj(Set("query", T(a, "query"))
           \cup IfLength(a, "idBoards", "idBoards")
           \cup IfLength(a, "idOrganizations", "idOrganizations")
           \cup IfLength(a, "modelTypes", "modelTypes")
           \cup IfTruthy(a, "cards_limit", "cards_limit")
           \cup IfTruthy(a, "boards_limit", "boards_limit")
           \cup IfDefined(a, "partial", "partial")))

searchMembers(a) ==
  Call("/search/members", "GET", NoBody,
       Obj(Set("query", T(a, "query"))
           \cup Set("limit", String(Default(Get(a, "limit"), Num(8))))))

getWebhook(a) == Call("/webhooks/" \o T(a, "webhookId"), "GET", NoBody, NoParams)

getWebhooks(credentials) ==
  Call("/tokens/" \o credentials.token \o "/webhooks", "GET", NoBody, NoParams)

createWebhook(a) ==
  Call("/webhooks", "POST", NoBody,
       Obj(Set("callbackURL", T(a, "callbackURL"))
           \cup Set("idModel", T(a, "idModel"))
           \cup IfTruthy(a, "description", "description")
           \cup IfDefined(a, "active", "active")))

updateWebhook(a) ==
  Call("/webhooks/" \o T(a, "webhookId"), "PUT", NoBody,
       Obj(IfDefined(a, "description", "description")
           \cup IfTruthy(a, "callbackURL", "callbackURL")
           \cup IfTruthy(a, "idModel", "idModel")
           \cup IfDefined(a, "active", "active")))

deleteWebhook(a) == Call("/webhooks/" \o T(a, "webhookId"), "DELETE", NoBody, NoParams)

\* testConnection issues the request of getMe
testConnectionCall(a) == getMe(a)

\* the request an operation of the client builds from its arguments
ClientCall(credentials, op, a) ==
  CASE op = "testConnection" -> testConnectionCall(a)
    [] op = "getMe" -> getMe(a)
    [] op = "getMember" -> getMember(a)
    [] op = "getMemberBoards" -> getMemberBoards(a)
    [] op = "getMemberCards" -> getMemberCards(a)
    [] op = "getMemberOrganizations" -> getMemberOrganizations(a)
    [] op = "listBoards" -> listBoards(a)
    [] op = "getBoard" -> getBoard(a)
    [] op = "createBoard" -> createBoard(a)
    [] op = "updateBoard" -> updateBoard(a)
    [] op = "deleteBoard" -> deleteBoard(a)
    [] op = "getBoardMembers" -> getBoardMembers(a)
    [] op = "getBoardLists" -> getBoardLists(a)
    [] op = "getBoardCards" -> getBoardCards(a)
    [] op = "getBoardLabels" -> getBoardLabels(a)
    [] op = "getBoardActions" -> getBoardActions(a)
    [] op = "getBoardChecklists" -> getBoardChecklists(a)
    [] op = "getBoardCustomFields" -> getBoardCustomFields(a)
    [] op = "addMemberToBoard" -> addMemberToBoard(a)
    [] op = "removeMemberFromBoard" -> removeMemberFromBoard(a)
    [] op = "getList" -> getList(a)
    [] op = "createList" -> createList(a)
    [] op = "updateList" -> updateList(a)
    [] op = "archiveList" -> archiveList(a)
    [] op = "unarchiveList" -> unarchiveList(a)
    [] op = "getListCards" -> getListCards(a)
    [] op = "archiveAllCardsInList" -> archiveAllCardsInList(a)
    [] op = "moveAllCardsInList" -> moveAllCardsInList(a)
    [] op = "getCard" -> getCard(a)
    [] op = "createCard" -> createCard(a)
    [] op = "updateCard" -> updateCard(a)
    [] op = "deleteCard" -> deleteCard(a)
    [] op = "archiveCard" -> archiveCard(a)
    [] op = "unarchiveCard" -> unarchiveCard(a)
    [] op = "moveCard" -> moveCard(a)
    [] op = "getCardActions" -> getCardActions(a)
    [] op = "getCardAttachments" -> getCardAttachments(a)
    [] op = "addAttachmentToCard" -> addAttachmentToCard(a)
    [] op = "deleteAttachment" -> deleteAttachment(a)
    [] op = "getCardChecklists" -> getCardChecklists(a)
    [] op = "addCommentToCard" -> addCommentToCard(a)
    [] op = "getCardComments" -> getCardComments(a)
    [] op = "updateComment" -> updateComment(a)
    [] op = "deleteComment" -> deleteComment(a)
    [] op = "addLabelToCard" -> addLabelToCard(a)
    [] op = "removeLabelFromCard" -> removeLabelFromCard(a)
    [] op = "addMemberToCard" -> addMemberToCard(a)
    [] op = "removeMemberFromCard" -> removeMemberFromCard(a)
    [] op = "getCardCustomFieldItems" -> getCardCustomFieldItems(a)
    [] op = "setCardCustomFieldValue" -> setCardCustomFieldValue(a)
    [] op = "getLabel" -> getLabel(a)
    [] op = "createLabel" -> createLabel(a)
    [] op = "updateLabel" -> updateLabel(a)
    [] op = "deleteLabel" -> deleteLabel(a)
    [] op = "getChecklist" -> getChecklist(a)
    [] op = "createChecklist" -> createChecklist(a)
    [] op = "updateChecklist" -> updateChecklist(a)
    [] op = "deleteChecklist" -> deleteChecklist(a)
    [] op = "getCheckItems" -> getCheckItems(a)
    [] op = "createCheckItem" -> createCheckItem(a)
    [] op = "updateCheckItem" -> updateCheckItem(a)
    [] op = "deleteCheckItem" -> deleteCheckItem(a)
    [] op = "getCustomField" -> getCustomField(a)
    [] op = "createCustomField" -> createCustomField(a)
    [] op = "updateCustomField" -> updateCustomField(a)
    [] op = "deleteCustomField" -> deleteCustomField(a)
    [] op = "getCustomFieldOptions" -> getCustomFieldOptions(a)
    [] op = "addCustomFieldOption" -> addCustomFieldOption(a)
    [] op = "deleteCustomFieldOption" -> deleteCustomFieldOption(a)
    [] op = "getOrganization" -> getOrganization(a)
    [] op = "createOrganization" -> createOrganization(a)
    [] op = "updateOrganization" -> updateOrganization(a)
    [] op = "deleteOrganization" -> deleteOrganization(a)
    [] op = "getOrganizationMembers" -> getOrganizationMembers(a)
    [] op = "getOrganizationBoards" -> getOrganizationBoards(a)
    [] op = "getAction" -> getAction(a)
    [] op = "search" -> search(a)
    [] op = "searchMembers" -> searchMembers(a)
    [] op = "getWebhook" -> getWebhook(a)
    [] op = "getWebhooks" -> getWebhooks(credentials)
    [] op = "createWebhook" -> createWebhook(a)
    [] op = "updateWebhook" -> updateWebhook(a)
    [] op = "deleteWebhook" -> deleteWebhook(a)

\* ------------------------------------------------------------------------
\* The transport helper after fetch: classification of the response
\* ------------------------------------------------------------------------
\* a JSON array of values
ListV(q) == V("list", "", 0, FALSE, q)

\* the property k of a parsed object
Prop(v, k) ==
  IF v.t = "object" /\ \E i \in 1..Len(v.a) : v.a[i][1] = k
  THEN v.a[CHOOSE i \in 1..Len(v.a) : v.a[i][1] = k][2]
  ELSE Undefined

\* upstream entities the response bodies are the serialisations of
MemberAnn == ObjV(<<<<"id", Str("m1")>>, <<"fullName", Str("Ann")>>, <<"username", Str("ann")>>>>)
BoardOne == ObjV(<<<<"id", Str("b1")>>, <<"name", Str("Plan")>>, <<"closed", Bool(FALSE)>>>>)
BoardOld == ObjV(<<<<"id", Str("b2")>>, <<"name", Str("Old")>>, <<"closed", Bool(TRUE)>>>>)
\* a list response holding an open and a closed entity
BoardsBoth == ListV(<<BoardOne, BoardOld>>)
JsonValues == {MemberAnn, BoardOne, BoardsBoth}
\* a body that is not JSON
NotJson == "<html>"
\* the texts JSON.parse accepts, and its result on them
JsonTexts == {JSONstringify(v) : v \in JsonValues}
JSONparse(text) == CHOOSE v \in JsonValues : JSONstringify(v) = text

\* a number or NaN
Number(n) == [nan |-> FALSE, n |-> n]
NaN == [nan |-> TRUE, n |-> 0]

Digits == <<"0", "1", "2", "3", "4", "5", "6", "7", "8", "9">>
IsDigit(c) == \E d \in 1..10 : Digits[d] = c
DigitValue(c) == (CHOOSE d \in 1..10 : Digits[d] = c) - 1
IsSpace(c) == c = " "

RECURSIVE digitsPrefix(_, _)
\* the value of the longest prefix of decimal digits of q, read after acc
digitsPrefix(q, acc) ==
  IF Len(q) > 0 /\ IsDigit(q[1])
  THEN digitsPrefix(Tail(q), acc * 10 + DigitValue(q[1]))
  ELSE acc

RECURSIVE skipSpace(_)
skipSpace(q) == IF Len(q) > 0 /\ IsSpace(q[1]) THEN skipSpace(Tail(q)) ELSE q

\* parseInt(text, 10) of a text given as its sequence of characters
parseInt10(q) ==
  LET t == skipSpace(q)
      neg == Len(t) > 0 /\ t[1] = "-"
      u == IF Len(t) > 0 /\ t[1] \in {"-", "+"} THEN Tail(t) ELSE t
  IN IF Len(u) > 0 /\ IsDigit(u[1])
     THEN Number(IF neg THEN 0 - digitsPrefix(u, 0) ELSE digitsPrefix(u, 0))
     ELSE NaN

\* an absent header: headers.get returns null
NoHeader == [present |-> FALSE, chars |-> <<>>]
Header(q) == [present |-> TRUE, chars |-> q]

\* the result of a call: a returned value or a thrown error
Outcome(kind, cls, message, statusCode, retryAfter, value) ==
  [kind |-> kind, cls |-> cls, message |-> message, statusCode |-> statusCode,
   retryAfter |-> retryAfter, value |-> value]
NoOutcome == Outcome("none", "", "", 0, Number(0), Undefined)
Return(value) == Outcome("return", "", "", 0, Number(0), value)
Throw(cls, message) == Outcome("throw", cls, message, 0, Number(0), Undefined)
RateLimitError(message, retryAfter) ==
  Outcome("throw", "RateLimitError", message, 0, retryAfter, Undefined)
AuthenticationError(message) ==
  Outcome("throw", "AuthenticationError", message, 0, Number(0), Undefined)
ApiError(message, statusCode) ==
  Outcome("throw", "ApiError", message, statusCode, Number(0), Undefined)

\* response.ok
Ok(status) == status >= 200 /\ status <= 299

\* a helper that keeps the first property of the object it parsed only
requestSettle_lossy(resp) ==
  IF resp.status = 429
  THEN LET retryAfter == resp.retryAfter
       IN RateLimitError("Rate limit exceeded",
                         IF retryAfter.present /\ Len(retryAfter.chars) > 0
                         THEN parseInt10(retryAfter.chars)
                         ELSE Number(60))
  ELSE IF resp.status = 401
  THEN AuthenticationError("Invalid API key or token")
  ELSE IF ~Ok(resp.status)
  THEN ApiError("Trello API error: " \o resp.body, resp.status)
  ELSE IF resp.body = ""
  THEN Return(Undefined)
  ELSE IF resp.body \in JsonTexts
  THEN LET v == JSONparse(resp.body)
       IN Return(IF v.t = "object" THEN ObjV(SubSeq(v.a, 1, 1)) ELSE v)
  ELSE Throw("SyntaxError", "Unexpected token in JSON")

\* request(), from the response of fetch on
requestSettle(resp) ==
  IF resp.status = 429
  THEN LET retryAfter == resp.retryAfter
       IN RateLimitError("Rate limit exceeded",
                         IF retryAfter.present /\ Len(retryAfter.chars) > 0
                         THEN parseInt10(retryAfter.chars)
                         ELSE Number(60))
  ELSE IF resp.status = 401
  THEN AuthenticationError("Invalid API key or token")
  ELSE IF ~Ok(resp.status)
  THEN ApiError("Trello API error: " \o resp.body, resp.status)
  ELSE IF resp.body = ""
  THEN Return(Undefined)
  ELSE IF resp.body \in JsonTexts
  THEN Return(JSONparse(resp.body))
  ELSE Throw("SyntaxError", "Unexpected token in JSON")

\* fetch rejects: the request never got a response
fetchRejects == Throw("TypeError", "fetch failed")

\* the value { connected, message } of testConnection
Connection(connected, message) ==
  ObjV(<<<<"connected", Bool(connected)>>, <<"message", Str(message)>>>>)

\* testConnection, given how its getMe() ended
testConnection(me) ==
  IF me.kind = "return"
  THEN IF me.value.t = "undefined"
       THEN Return(Connection(FALSE, "Cannot read properties of undefined (reading 'fullName')"))
       ELSE Return(Connection(TRUE, "Connected as " \o String(Prop(me.value, "fullName"))
                                    \o " (@" \o String(Prop(me.value, "username")) \o ")"))
  ELSE Return(Connection(FALSE, me.message))

\* the operations declared Promise<void>: they await the request and return
\* nothing
VoidOps ==
  {"deleteBoard", "removeMemberFromBoard", "archiveAllCardsInList", "moveAllCardsInList",
   "deleteCard", "deleteAttachment", "deleteComment", "addLabelToCard", "removeLabelFromCard",
   "addMemberToCard", "removeMemberFromCard", "setCardCustomFieldValue", "deleteLabel",
   "deleteChecklist", "deleteCheckItem", "deleteCustomField", "deleteCustomFieldOption",
   "deleteOrganization", "deleteWebhook"}

\* how the operation ends, given how its request ended
ClientSettle(op, requested) ==
  IF op = "testConnection" THEN testConnection(requested)
  ELSE IF op \in VoidOps /\ requested.kind = "return" THEN Return(Undefined)
  ELSE requested

\* ------------------------------------------------------------------------
\* Response renderer: texts
\* ------------------------------------------------------------------------
\* the backquote of the templates; a string of TLA+ cannot hold the character,
\* so the apostrophe stands for it
Backquote == "'"

\* str.charAt(i) and str.slice(from, to), positions counted from 0
charAt(str, i) == SubSeq(str, i + 1, i + 1)
slice(str, from, to) == SubSeq(str, from + 1, IF to < Len(str) THEN to ELSE Len(str))

Lower == "abcdefghijklmnopqrstuvwxyz"
Upper == "ABCDEFGHIJKLMNOPQRSTUVWXYZ"
toUpperCase(c) ==
  IF \E i \in 1..26 : SubSeq(Lower, i, i) = c
  THEN LET i == CHOOSE i \in 1..26 : SubSeq(Lower, i, i) = c IN SubSeq(Upper, i, i)
  ELSE c
IsUpper(c) == \E i \in 1..26 : SubSeq(Upper, i, i) = c

capitalize(str) == toUpperCase(charAt(str, 0)) \o slice(str, 1, Len(str))

RECURSIVE spaceBeforeUpper(_)
\* key.replace(/([A-Z])/g, ' $1'), replacing in each half of the key
spaceBeforeUpper(key) ==
  IF key = "" THEN ""
  ELSE IF Len(key) = 1 THEN (IF IsUpper(key) THEN " " \o key ELSE key)
  ELSE LET half == Len(key) \div 2
       IN spaceBeforeUpper(SubSeq(key, 1, half)) \o spaceBeforeUpper(SubSeq(key, half + 1, Len(key)))

RECURSIVE trimStart(_)
trimStart(str) == IF str # "" /\ charAt(str, 0) = " " THEN trimStart(Tail(str)) ELSE str

\* camelCase to Title Case; the keys rendered end in no space
formatKey(key) == trimStart(capitalize(spaceBeforeUpper(key)))

RECURSIVE escapeMarkdown(_)
\* text.replace(/[|]/g, '\\|').replace(/\n/g, ' '), replacing in each half of the text
escapeMarkdown(text) ==
  IF text = "" THEN ""
  ELSE IF Len(text) = 1
  THEN (CASE text = "|" -> "\\|"
          [] text = "\n" -> " "
          [] OTHER -> text)
  ELSE LET half == Len(text) \div 2
       IN escapeMarkdown(SubSeq(text, 1, half)) \o escapeMarkdown(SubSeq(text, half + 1, Len(text)))

RECURSIVE joinWith(_, _)
\* lines.join(sep)
joinWith(lines, sep) ==
  IF Len(lines) = 0 THEN ""
  ELSE IF Len(lines) = 1 THEN lines[1]
  ELSE lines[1] \o sep \o joinWith(Tail(lines), sep)

RECURSIVE quoteChars(_)
\* the characters of a string as JSON writes them, half by half
quoteChars(str) ==
  IF str = "" THEN ""
  ELSE IF Len(str) = 1
  THEN (CASE str = "\"" -> "\\\""
          [] str = "\\" -> "\\\\"
          [] str = "\n" -> "\\n"
          [] OTHER -> str)
  ELSE LET half == Len(str) \div 2
       IN quoteChars(SubSeq(str, 1, half)) \o quoteChars(SubSeq(str, half + 1, Len(str)))

\* the JSON text of a string
quote(str) == "\"" \o quoteChars(str) \o "\""

RECURSIVE spaces(_)
spaces(n) == IF n = 0 THEN "" ELSE " " \o spaces(n - 1)

RECURSIVE pretty(_, _)
\* JSON.stringify(value, null, 2) below the top level, at indentation ind
pretty(v, ind) ==
  CASE v.t = "string" -> quote(v.s)
    [] v.t = "number" -> ToString(v.n)
    [] v.t = "boolean" -> (IF v.b THEN "true" ELSE "false")
    [] v.t = "object" ->
         LET props == SelectSeq(v.a, LAMBDA p : Defined(p[2]))
         IN IF Len(props) = 0 THEN "{}"
            ELSE "{\n"
                 \o joinWith([i \in 1..Len(props) |->
                                spaces(ind + 2) \o quote(props[i][1]) \o ": "
                                \o pretty(props[i][2], ind + 2)], ",\n")
                 \o "\n" \o spaces(ind) \o "}"
    [] v.t = "list" ->
         IF Len(v.a) = 0 THEN "[]"
         ELSE "[\n"
              \o joinWith([i \in 1..Len(v.a) |-> spaces(ind + 2) \o pretty(v.a[i], ind + 2)], ",\n")
              \o "\n" \o spaces(ind) \o "]"
    [] OTHER -> "null"

\* what a text block holds when JSON.stringify returns undefined
NoText == "<undefined>"
\* JSON.stringify(value, null, 2)
JSONstringify2(v) == IF v.t = "undefined" THEN NoText ELSE pretty(v, 0)

\* new Date(due).toLocaleDateString() for the dates of the cards rendered
toLocaleDateString(due) ==
  CASE due = "2026-11-05T00:00:00.000Z" -> "11/5/2026"
    [] OTHER -> "Invalid Date"

\* `${value}` of any value
Template(v) ==
  CASE v.t = "object" -> "[object Object]"
    [] v.t = "list" -> joinWith([i \in 1..Len(v.a) |->
                                   IF v.a[i].t \in {"null", "undefined"} THEN ""
                                   ELSE IF v.a[i].t = "object" THEN "[object Object]"
                                   ELSE String(v.a[i])], ",")
    [] OTHER -> String(v)

\* ------------------------------------------------------------------------
\* Response renderer: tables
\* ------------------------------------------------------------------------
\* `${entity.field}`
Field(entity, k) == Template(Prop(entity, k))

formatBoardsTable(boards) ==
  joinWith(<<"| Name | ID | Status | URL |", "|---|---|---|---|">>
           \o [i \in 1..Len(boards) |->
                 LET board == boards[i]
                     status == IF Truthy(Prop(board, "closed")) THEN "Closed" ELSE "Open"
                 IN "| " \o Field(board, "name") \o " | " \o Backquote \o Field(board, "id") \o Backquote \o " | "
                    \o status \o " | " \o Field(board, "shortUrl") \o " |"], "\n")

formatListsTable(lists) ==
  joinWith(<<"| Name | ID | Status | Position |", "|---|---|---|---|">>
           \o [i \in 1..Len(lists) |->
                 LET list == lists[i]
                     status == IF Truthy(Prop(list, "closed")) THEN "Archived" ELSE "Active"
                 IN "| " \o Field(list, "name") \o " | " \o Backquote \o Field(list, "id") \o Backquote \o " | "
                    \o status \o " | " \o Field(list, "pos") \o " |"], "\n")

formatCardsTable(cards) ==
  joinWith(<<"| Name | ID | Due | Status | URL |", "|---|---|---|---|---|">>
           \o [i \in 1..Len(cards) |->
                 LET card == cards[i]
                     status == IF Truthy(Prop(card, "closed")) THEN "Archived" ELSE "Active"
                     due == IF Truthy(Prop(card, "due"))
                            THEN toLocaleDateString(Prop(card, "due").s) ELSE "-"
                     dueStatus == IF Truthy(Prop(card, "dueComplete")) THEN " (Done)" ELSE ""
                 IN "| " \o escapeMarkdown(Prop(card, "name").s) \o " | " \o Backquote \o Field(card, "id")
                    \o Backquote \o " | " \o due \o dueStatus \o " | " \o status \o " | "
                    \o Field(card, "shortUrl") \o " |"], "\n")

formatLabelsTable(labels) ==
  joinWith(<<"| Name | ID | Color |", "|---|---|---|">>
           \o [i \in 1..Len(labels) |->
                 LET label == labels[i]
                     name == IF Truthy(Prop(label, "name")) THEN Prop(label, "name").s
                             ELSE "(no name)"
                     color == IF Truthy(Prop(label, "color")) THEN Field(label, "color")
                              ELSE "none"
                 IN "| " \o escapeMarkdown(name) \o " | " \o Backquote \o Field(label, "id") \o Backquote \o " | "
                    \o color \o " |"], "\n")

formatMembersTable(members) ==
  joinWith(<<"| Name | Username | ID |", "|---|---|---|">>
           \o [i \in 1..Len(members) |->
                 LET member == members[i]
                 IN "| " \o escapeMarkdown(Prop(member, "fullName").s) \o " | @"
                    \o Field(member, "username") \o " | " \o Backquote \o Field(member, "id") \o Backquote \o " |"], "\n")

\* a count of the items whatever their state
completedOf_total(checkItems) == Len(checkItems)

\* checklist.checkItems.filter(item => item.state === 'complete').length
completedOf(checkItems) ==
  Len(SelectSeq(checkItems, LAMBDA item : Prop(item, "state") = Str("complete")))

RECURSIVE checklistLines(_)
\* the lines the loop over the checklists pushes
checklistLines(checklists) ==
  IF Len(checklists) = 0 THEN <<>>
  ELSE LET checklist == checklists[1]
           checkItems == Prop(checklist, "checkItems").a
           completed == completedOf(checkItems)
           total == Len(checkItems)
       IN <<"### " \o escapeMarkdown(Prop(checklist, "name").s) \o " (" \o ToString(completed)
              \o "/" \o ToString(total) \o ")",
            "**ID:** " \o Backquote \o Field(checklist, "id") \o Backquote,
            "">>
          \o (IF Len(checkItems) > 0
              THEN [j \in 1..Len(checkItems) |->
                      LET item == checkItems[j]
                          checkbox == IF Prop(item, "state") = Str("complete")
                                      THEN "[x]" ELSE "[ ]"
                      IN "- " \o checkbox \o " " \o escapeMarkdown(Prop(item, "name").s)]
              ELSE <<"_No items_">>)
          \o <<"">>
          \o checklistLines(Tail(checklists))

formatChecklistsTable(checklists) == joinWith(checklistLines(checklists), "\n")

formatOrganizationsTable(orgs) ==
  joinWith(<<"| Name | ID | URL |", "|---|---|---|">>
           \o [i \in 1..Len(orgs) |->
                 LET org == orgs[i]
                 IN "| " \o escapeMarkdown(Prop(org, "displayName").s) \o " | " \o Backquote
                    \o Field(org, "id") \o Backquote \o " | " \o Field(org, "url") \o " |"], "\n")

\* Object.keys(first).slice(0, 5)
Keys(first) == [i \in 1..(IF Len(first.a) < 5 THEN Len(first.a) ELSE 5) |-> first.a[i][1]]

formatGenericTable(items) ==
  IF Len(items) = 0 THEN "_No items_"
  ELSE LET keys == Keys(items[1])
       IN joinWith(<<"| " \o joinWith(keys, " | ") \o " |",
                     "|" \o joinWith([i \in 1..Len(keys) |-> "---"], "|") \o "|">>
                   \o [i \in 1..Len(items) |->
                         LET record == items[i]
                             values == [k \in 1..Len(keys) |->
                                          LET val == Prop(record, keys[k])
                                          IN IF val.t \in {"null", "undefined"} THEN "-"
                                             ELSE IF val.t \in {"object", "list"} THEN "(object)"
                                             ELSE slice(String(val), 0, 50)]
                         IN "| " \o joinWith(values, " | ") \o " |"], "\n")

\* ------------------------------------------------------------------------
\* Response renderer: formatResponse
\* ------------------------------------------------------------------------
\* formatArrayAsMarkdown rendering the table of an empty list as of any other
formatArrayAsMarkdown_emptyTable(data, entityType) ==
  joinWith(<<"## " \o capitalize(entityType),
             "**Count:** " \o ToString(Len(data)),
             "",
             IF entityType = "boards" THEN formatBoardsTable(data)
             ELSE formatGenericTable(data)>>, "\n")

formatArrayAsMarkdown(data, entityType) ==
  IF Len(data) = 0
  THEN "## " \o capitalize(entityType) \o "\n\n_No items found._"
  ELSE joinWith(<<"## " \o capitalize(entityType),
                  "**Count:** " \o ToString(Len(data)),
                  "",
                  CASE entityType = "boards" -> formatBoardsTable(data)
                    [] entityType = "lists" -> formatListsTable(data)
                    [] entityType = "cards" -> formatCardsTable(data)
                    [] entityType = "labels" -> formatLabelsTable(data)
                    [] entityType = "members" -> formatMembersTable(data)
                    [] entityType = "checklists" -> formatChecklistsTable(data)
                    [] entityType = "organizations" -> formatOrganizationsTable(data)
                    [] OTHER -> formatGenericTable(data)>>, "\n")

\* entityType.replace(/s$/, '')
dropFinalS(str) ==
  IF str # "" /\ charAt(str, Len(str) - 1) = "s" THEN slice(str, 0, Len(str) - 1) ELSE str

formatObjectAsMarkdown(data, entityType) ==
  LET entries == SelectSeq(data.a, LAMBDA e : e[2].t \notin {"null", "undefined"})
  IN joinWith(<<"## " \o capitalize(dropFinalS(entityType)), "">>
              \o [i \in 1..Len(entries) |->
                    LET key == entries[i][1]
                        value == entries[i][2]
                    IN IF value.t \in {"object", "list"}
                       THEN "**" \o formatKey(key) \o ":**\n" \o Backquote \o Backquote \o Backquote \o "json\n" \o JSONstringify2(value)
                            \o "\n" \o Backquote \o Backquote \o Backquote
                       ELSE "**" \o formatKey(key) \o ":** " \o Template(value)], "\n")

formatAsMarkdown(data, entityType) ==
  IF data.t = "list" THEN formatArrayAsMarkdown(data.a, entityType)
  ELSE IF data.t = "object" THEN formatObjectAsMarkdown(data, entityType)
  ELSE String(data)

\* the envelope { content: [{ type: 'text', text }], isError? } of a tool
Envelope(isError, text) == [returned |-> TRUE, isError |-> isError, text |-> text]
NoEnvelope == [returned |-> FALSE, isError |-> FALSE, text |-> ""]

formatResponse(data, format, entityType) ==
  IF format = "markdown"
  THEN Envelope(FALSE, formatAsMarkdown(data, entityType))
  ELSE Envelope(FALSE, JSONstringify2(data))

\* ------------------------------------------------------------------------
\* Tool handlers
\* ------------------------------------------------------------------------
\* the tool registered on each client operation ("" where none is)
ToolOf(op) ==
  CASE op = "testConnection" -> "trello_test_connection"
    [] op = "listBoards" -> "trello_list_boards"
    [] op = "getBoard" -> "trello_get_board"
    [] op = "createBoard" -> "trello_create_board"
    [] op = "updateBoard" -> "trello_update_board"
    [] op = "deleteBoard" -> "trello_delete_board"
    [] op = "getBoardLists" -> "trello_get_board_lists"
    [] op = "getBoardCards" -> "trello_get_board_cards"
    [] op = "getBoardMembers" -> "trello_get_board_members"
    [] op = "getBoardLabels" -> "trello_get_board_labels"
    [] op = "getBoardActions" -> "trello_get_board_actions"
    [] op = "addMemberToBoard" -> "trello_add_board_member"
    [] op = "removeMemberFromBoard" -> "trello_remove_board_member"
    [] op = "getBoardCustomFields" -> "trello_get_board_custom_fields"
    [] op = "getList" -> "trello_get_list"
    [] op = "createList" -> "trello_create_list"
    [] op = "updateList" -> "trello_update_list"
    [] op = "archiveList" -> "trello_archive_list"
    [] op = "unarchiveList" -> "trello_unarchive_list"
    [] op = "getListCards" -> "trello_get_list_cards"
    [] op = "archiveAllCardsInList" -> "trello_archive_all_cards_in_list"
    [] op = "moveAllCardsInList" -> "trello_move_all_cards_in_list"
    [] op = "getLabel" -> "trello_get_label"
    [] op = "createLabel" -> "trello_create_label"
    [] op = "updateLabel" -> "trello_update_label"
    [] op = "deleteLabel" -> "trello_delete_label"
    [] op = "getCard" -> "trello_get_card"
    [] op = "createCard" -> "trello_create_card"
    [] op = "updateCard" -> "trello_update_card"
    [] op = "deleteCard" -> "trello_delete_card"
    [] op = "archiveCard" -> "trello_archive_card"
    [] op = "unarchiveCard" -> "trello_unarchive_card"
    [] op = "moveCard" -> "trello_move_card"
    [] op = "addCommentToCard" -> "trello_add_comment"
    [] op = "getCardComments" -> "trello_get_card_comments"
    [] op = "addLabelToCard" -> "trello_add_label_to_card"
    [] op = "removeLabelFromCard" -> "trello_remove_label_from_card"
    [] op = "addMemberToCard" -> "trello_add_member_to_card"
    [] op = "removeMemberFromCard" -> "trello_remove_member_from_card"
    [] op = "getCardAttachments" -> "trello_get_card_attachments"
    [] op = "addAttachmentToCard" -> "trello_add_attachment"
    [] op = "deleteAttachment" -> "trello_delete_attachment"
    [] op = "getCardCustomFieldItems" -> "trello_get_card_custom_fields"
    [] op = "setCardCustomFieldValue" -> "trello_set_card_custom_field"
    [] op = "getChecklist" -> "trello_get_checklist"
    [] op = "createChecklist" -> "trello_create_checklist"
    [] op = "updateChecklist" -> "trello_update_checklist"
    [] op = "deleteChecklist" -> "trello_delete_checklist"
    [] op = "getCardChecklists" -> "trello_get_card_checklists"
    [] op = "createCheckItem" -> "trello_create_check_item"
    [] op = "updateCheckItem" -> "trello_update_check_item"
    [] op = "deleteCheckItem" -> "trello_delete_check_item"
    [] op = "getCustomField" -> "trello_get_custom_field"
    [] op = "createCustomField" -> "trello_create_custom_field"
    [] op = "updateCustomField" -> "trello_update_custom_field"
    [] op = "deleteCustomField" -> "trello_delete_custom_field"
    [] op = "getCustomFieldOptions" -> "trello_get_custom_field_options"
    [] op = "addCustomFieldOption" -> "trello_add_custom_field_option"
    [] op = "deleteCustomFieldOption" -> "trello_delete_custom_field_option"
    [] op = "getMe" -> "trello_get_me"
    [] op = "getMember" -> "trello_get_member"
    [] op = "getMemberBoards" -> "trello_get_member_boards"
    [] op = "getMemberCards" -> "trello_get_member_cards"
    [] op = "getMemberOrganizations" -> "trello_get_member_organizations"
    [] op = "searchMembers" -> "trello_search_members"
    [] op = "getOrganization" -> "trello_get_organization"
    [] op = "createOrganization" -> "trello_create_organization"
    [] op = "updateOrganization" -> "trello_update_organization"
    [] op = "deleteOrganization" -> "trello_delete_organization"
    [] op = "getOrganizationMembers" -> "trello_get_organization_members"
    [] op = "getOrganizationBoards" -> "trello_get_organization_boards"
    [] op = "search" -> "trello_search"
    [] op = "getWebhooks" -> "trello_list_webhooks"
    [] op = "getWebhook" -> "trello_get_webhook"
    [] op = "createWebhook" -> "trello_create_webhook"
    [] op = "updateWebhook" -> "trello_update_webhook"
    [] op = "deleteWebhook" -> "trello_delete_webhook"
    [] OTHER -> ""

\* the entity kind the handler of a reading tool hands to formatResponse
EntityTypeOf(tool) ==
  CASE tool = "trello_list_boards" -> "boards"
    [] tool = "trello_get_board" -> "board"
    [] tool = "trello_get_board_lists" -> "lists"
    [] tool = "trello_get_board_cards" -> "cards"
    [] tool = "trello_get_board_members" -> "members"
    [] tool = "trello_get_board_labels" -> "labels"
    [] tool = "trello_get_board_actions" -> "actions"
    [] tool = "trello_get_board_custom_fields" -> "customFields"
    [] tool = "trello_get_card" -> "card"
    [] tool = "trello_get_card_comments" -> "comments"
    [] tool = "trello_get_card_attachments" -> "attachments"
    [] tool = "trello_get_card_custom_fields" -> "customFieldItems"
    [] tool = "trello_get_checklist" -> "checklist"
    [] tool = "trello_get_card_checklists" -> "checklists"
    [] tool = "trello_get_custom_field" -> "customField"
    [] tool = "trello_get_custom_field_options" -> "customFieldOptions"
    [] tool = "trello_get_me" -> "member"
    [] tool = "trello_get_member" -> "member"
    [] tool = "trello_get_member_boards" -> "boards"
    [] tool = "trello_get_member_cards" -> "cards"
    [] tool = "trello_get_member_organizations" -> "organizations"
    [] tool = "trello_search_members" -> "members"
    [] tool = "trello_get_organization" -> "organization"
    [] tool = "trello_get_organization_members" -> "members"
    [] tool = "trello_get_organization_boards" -> "boards"
    [] tool = "trello_search" -> "searchResults"
    [] tool = "trello_list_webhooks" -> "webhooks"
    [] tool = "trello_get_webhook" -> "webhook"
    [] tool = "trello_get_list" -> "list"
    [] tool = "trello_get_list_cards" -> "cards"
    [] tool = "trello_get_label" -> "label"
    [] OTHER -> ""

\* the message of the success object of a writing tool
SuccessMessage(tool, a) ==
  CASE tool = "trello_create_board" -> "Board created"
    [] tool = "trello_update_board" -> "Board updated"
    [] tool = "trello_delete_board" -> "Board " \o T(a, "boardId") \o " deleted"
    [] tool = "trello_add_board_member" -> "Member added to board"
    [] tool = "trello_remove_board_member" -> "Member removed from board"
    [] tool = "trello_create_card" -> "Card created"
    [] tool = "trello_update_card" -> "Card updated"
    [] tool = "trello_delete_card" -> "Card " \o T(a, "cardId") \o " deleted"
    [] tool = "trello_archive_card" -> "Card archived"
    [] tool = "trello_unarchive_card" -> "Card unarchived"
    [] tool = "trello_move_card" -> "Card moved"
    [] tool = "trello_add_comment" -> "Comment added"
    [] tool = "trello_add_label_to_card" -> "Label added to card"
    [] tool = "trello_remove_label_from_card" -> "Label removed from card"
    [] tool = "trello_add_member_to_card" -> "Member added to card"
    [] tool = "trello_remove_member_from_card" -> "Member removed from card"
    [] tool = "trello_add_attachment" -> "Attachment added"
    [] tool = "trello_delete_attachment" -> "Attachment deleted"
    [] tool = "trello_set_card_custom_field" -> "Custom field value set"
    [] tool = "trello_create_checklist" -> "Checklist created"
    [] tool = "trello_update_checklist" -> "Checklist updated"
    [] tool = "trello_delete_checklist" -> "Checklist deleted"
    [] tool = "trello_create_check_item" -> "Check item created"
    [] tool = "trello_update_check_item" -> "Check item updated"
    [] tool = "trello_delete_check_item" -> "Check item deleted"
    [] tool = "trello_create_custom_field" -> "Custom field created"
    [] tool = "trello_update_custom_field" -> "Custom field updated"
    [] tool = "trello_delete_custom_field" -> "Custom field deleted"
    [] tool = "trello_add_custom_field_option" -> "Option added"
    [] tool = "trello_delete_custom_field_option" -> "Option deleted"
    [] tool = "trello_create_organization" -> "Organization created"
    [] tool = "trello_update_organization" -> "Organization updated"
    [] tool = "trello_delete_organization" -> "Organization " \o T(a, "orgId") \o " deleted"
    [] tool = "trello_create_webhook" -> "Webhook created"
    [] tool = "trello_update_webhook" -> "Webhook updated"
    [] tool = "trello_delete_webhook" -> "Webhook deleted"
    [] tool = "trello_create_list" -> "List created"
    [] tool = "trello_update_list" -> "List updated"
    [] tool = "trello_archive_list" -> "List archived"
    [] tool = "trello_unarchive_list" -> "List unarchived"
    [] tool = "trello_archive_all_cards_in_list" -> "All cards in list archived"
    [] tool = "trello_move_all_cards_in_list" -> "All cards moved"
    [] tool = "trello_create_label" -> "Label created"
    [] tool = "trello_update_label" -> "Label updated"
    [] tool = "trello_delete_label" -> "Label deleted"
    [] OTHER -> ""

\* the key the success object holds the result of the operation under
ResultKey(tool) ==
  CASE tool = "trello_create_board" -> "board"
    [] tool = "trello_update_board" -> "board"
    [] tool = "trello_add_board_member" -> "member"
    [] tool = "trello_create_card" -> "card"
    [] tool = "trello_update_card" -> "card"
    [] tool = "trello_archive_card" -> "card"
    [] tool = "trello_unarchive_card" -> "card"
    [] tool = "trello_move_card" -> "card"
    [] tool = "trello_add_comment" -> "comment"
    [] tool = "trello_add_attachment" -> "attachment"
    [] tool = "trello_create_checklist" -> "checklist"
    [] tool = "trello_update_checklist" -> "checklist"
    [] tool = "trello_create_check_item" -> "checkItem"
    [] tool = "trello_update_check_item" -> "checkItem"
    [] tool = "trello_create_custom_field" -> "customField"
    [] tool = "trello_update_custom_field" -> "customField"
    [] tool = "trello_add_custom_field_option" -> "option"
    [] tool = "trello_create_organization" -> "organization"
    [] tool = "trello_update_organization" -> "organization"
    [] tool = "trello_create_webhook" -> "webhook"
    [] tool = "trello_update_webhook" -> "webhook"
    [] tool = "trello_create_list" -> "list"
    [] tool = "trello_update_list" -> "list"
    [] tool = "trello_archive_list" -> "list"
    [] tool = "trello_unarchive_list" -> "list"
    [] tool = "trello_create_label" -> "label"
    [] tool = "trello_update_label" -> "label"
    [] OTHER -> ""

\* the classes of utils/errors.js: the three classified errors are ApiErrors
InstanceOfApiError(error) == error.cls \in {"ApiError", "RateLimitError", "AuthenticationError"}
\* error.retryable: a rate limit is retryable, a generic failure when it is a 5xx
Retryable(error) ==
  \/ error.cls = "RateLimitError"
  \/ error.cls = "ApiError" /\ error.statusCode >= 500
\* `error instanceof Error`: a thrown value that is no Error has no class
InstanceOfError(error) == error.cls # ""
\* a thrown value that is not an Error
ThrowValue(value) == Outcome("throw", "", "", 0, Number(0), value)
\* formatErrorForLogging(error)
formatErrorForLogging(error) ==
  IF InstanceOfError(error)
  THEN ObjV(<<<<"name", Str(error.cls)>>, <<"message", Str(error.message)>>>>)
  ELSE ObjV(<<<<"message", Str(Template(error.value))>>>>)

\* formatError adding the annotation to every error
formatError_alwaysRetryable(error) ==
  Envelope(TRUE, JSONstringify2(ObjV(<<<<"error", Str("Error: " \o error.message \o " (retryable)")>>,
                                        <<"details", formatErrorForLogging(error)>>>>)))

formatError(error) ==
  LET errorInfo == formatErrorForLogging(error)
      message == IF InstanceOfApiError(error)
                 THEN "Error: " \o error.message
                      \o (IF Retryable(error) THEN " (retryable)" ELSE "")
                 ELSE IF InstanceOfError(error)
                 THEN "Error: " \o error.message
                 ELSE "Error: " \o Template(error.value)
  IN Envelope(TRUE, JSONstringify2(ObjV(<<<<"error", Str(message)>>, <<"details", errorInfo>>>>)))

\* the format argument of a tool, 'json' when the caller gives none
FormatOf(a) == Default(Get(a, "format"), Str("json")).s

\* the try/catch every handler of the registration groups is made of: a
\* reading tool renders the result, a writing tool its success object
\* a handler without its catch branch: what the operation throws escapes it
toolHandler_noCatch(tool, a, ended) ==
  IF ended.kind = "return"
  THEN IF EntityTypeOf(tool) # ""
       THEN formatResponse(ended.value, FormatOf(a), EntityTypeOf(tool))
       ELSE Envelope(FALSE,
                     JSONstringify2(ObjV(<<<<"success", Bool(TRUE)>>,
                                           <<"message", Str(SuccessMessage(tool, a))>>>>
                                         \o (IF ResultKey(tool) # ""
                                             THEN <<<<ResultKey(tool), ended.value>>>>
                                             ELSE <<>>))))
  ELSE NoEnvelope

toolHandler(tool, a, ended) ==
  IF ended.kind = "return"
  THEN IF EntityTypeOf(tool) # ""
       THEN formatResponse(ended.value, FormatOf(a), EntityTypeOf(tool))
       ELSE Envelope(FALSE,
                     JSONstringify2(ObjV(<<<<"success", Bool(TRUE)>>,
                                           <<"message", Str(SuccessMessage(tool, a))>>>>
                                         \o (IF ResultKey(tool) # ""
                                             THEN <<<<ResultKey(tool), ended.value>>>>
                                             ELSE <<>>))))
  ELSE formatError(ended)

\* the handler of trello_test_connection
testConnectionHandler(ended) ==
  IF ended.kind = "return"
  THEN Envelope(FALSE, JSONstringify2(ended.value))
  ELSE Envelope(TRUE, "Connection failed: "
                      \o (IF InstanceOfError(ended) THEN ended.message ELSE "Unknown error"))

\* the envelope the handler of the tool returns, given how the call ended
ToolSettle(tool, a, ended) ==
  IF tool = "" THEN NoEnvelope
  ELSE IF tool = "trello_test_connection" THEN testConnectionHandler(ended)
  ELSE toolHandler(tool, a, ended)

\* ------------------------------------------------------------------------
\* The arguments a call can be made with
\* ------------------------------------------------------------------------
\* the parameters of each operation with the kind of value each takes; the
\* kinds "id" and "text" are required, the others optional
NoFields == [k \in {} |-> ""]
Fields(op) ==
  CASE op \in {"getMember", "getMemberCards", "getMemberOrganizations"} -> [idOrUsername |-> "id"]
    [] op = "getMemberBoards" -> [idOrUsername |-> "id", filter |-> "filter"]
    [] op = "listBoards" -> [filter |-> "filter"]
    [] op \in {"getBoard", "deleteBoard", "getBoardMembers", "getBoardLabels",
               "getBoardChecklists", "getBoardCustomFields"} -> [boardId |-> "id"]
    [] op = "createBoard" ->
         [name |-> "text", desc |-> "string", idOrganization |-> "string",
          idBoardSource |-> "string", keepFromSource |-> "string", powerUps |-> "string",
          prefs_permissionLevel |-> "string", prefs_voting |-> "string",
          prefs_comments |-> "string", prefs_invitations |-> "string",
          prefs_selfJoin |-> "boolean", prefs_cardCovers |-> "boolean",
          prefs_background |-> "string", prefs_cardAging |-> "string",
          defaultLabels |-> "boolean", defaultLists |-> "boolean"]
    [] op = "updateBoard" ->
         [boardId |-> "id", name |-> "string", desc |-> "string", closed |-> "boolean",
          subscribed |-> "boolean", idOrganization |-> "string",
          prefs_permissionLevel |-> "string", prefs_selfJoin |-> "boolean",
          prefs_cardCovers |-> "boolean", prefs_hideVotes |-> "boolean",
          prefs_invitations |-> "string", prefs_voting |-> "string",
          prefs_comments |-> "string", prefs_background |-> "string",
          prefs_cardAging |-> "string", prefs_calendarFeedEnabled |-> "boolean",
          labelNames_green |-> "string", labelNames_yellow |-> "string",
          labelNames_orange |-> "string", labelNames_red |-> "string",
          labelNames_purple |-> "string", labelNames_blue |-> "string"]
    [] op \in {"getBoardLists", "getBoardCards"} -> [boardId |-> "id", filter |-> "filter"]
    [] op = "getBoardActions" -> [boardId |-> "id", limit |-> "limit"]
    [] op = "addMemberToBoard" -> [boardId |-> "id", memberId |-> "id", type |-> "string"]
    [] op = "removeMemberFromBoard" -> [boardId |-> "id", memberId |-> "id"]
    [] op \in {"getList", "archiveList", "unarchiveList", "archiveAllCardsInList"} -> [listId |-> "id"]
    [] op = "createList" ->
         [name |-> "text", idBoard |-> "id", idListSource |-> "string", pos |-> "pos"]
    [] op = "updateList" ->
         [listId |-> "id", name |-> "string", closed |-> "boolean", idBoard |-> "string",
          pos |-> "pos", subscribed |-> "boolean"]
    [] op = "getListCards" -> [listId |-> "id", filter |-> "filter"]
    [] op = "moveAllCardsInList" -> [listId |-> "id", idBoard |-> "id", idList |-> "id"]
    [] op \in {"getCard", "deleteCard", "archiveCard", "unarchiveCard", "getCardAttachments",
               "getCardChecklists", "getCardComments", "getCardCustomFieldItems"} -> [cardId |-> "id"]
    [] op = "createCard" ->
         [idList |-> "id", name |-> "text", desc |-> "string", pos |-> "pos", due |-> "string",
          start |-> "string", dueComplete |-> "boolean", idMembers |-> "array",
          idLabels |-> "array", urlSource |-> "string", fileSource |-> "string",
          mimeType |-> "string", idCardSource |-> "string", keepFromSource |-> "string",
          address |-> "string", locationName |-> "string", coordinates |-> "string"]
    [] op = "updateCard" ->
         [cardId |-> "id", name |-> "string", desc |-> "string", closed |-> "boolean",
          idList |-> "string", idBoard |-> "string", pos |-> "pos", due |-> "nullable",
          start |-> "nullable", dueComplete |-> "boolean", subscribed |-> "boolean",
          idMembers |-> "array", idLabels |-> "array"]
    [] op = "moveCard" -> [cardId |-> "id", idList |-> "id", idBoard |-> "string"]
    [] op = "getCardActions" -> [cardId |-> "id", limit |-> "limit"]
    [] op = "addAttachmentToCard" ->
         [cardId |-> "id", name |-> "string", file |-> "string", mimeType |-> "string",
          url |-> "string", setCover |-> "boolean"]
    [] op = "deleteAttachment" -> [cardId |-> "id", attachmentId |-> "id"]
    [] op = "addCommentToCard" -> [cardId |-> "id", text |-> "text"]
    [] op = "updateComment" -> [cardId |-> "id", actionId |-> "id", text |-> "text"]
    [] op = "deleteComment" -> [cardId |-> "id", actionId |-> "id"]
    [] op \in {"addLabelToCard", "removeLabelFromCard"} -> [cardId |-> "id", labelId |-> "id"]
    [] op \in {"addMemberToCard", "removeMemberFromCard"} -> [cardId |-> "id", memberId |-> "id"]
    [] op = "setCardCustomFieldValue" ->
         [cardId |-> "id", customFieldId |-> "id", value |-> "object"]
    [] op \in {"getLabel", "deleteLabel"} -> [labelId |-> "id"]
    [] op = "createLabel" -> [name |-> "text", idBoard |-> "id", color |-> "color"]
    [] op = "updateLabel" -> [labelId |-> "id", name |-> "string", color |-> "color"]
    [] op \in {"getChecklist", "deleteChecklist", "getCheckItems"} -> [checklistId |-> "id"]
    [] op = "createChecklist" ->
         [idCard |-> "id", name |-> "string", pos |-> "pos", idChecklistSource |-> "string"]
    [] op = "updateChecklist" -> [checklistId |-> "id", name |-> "text"]
    [] op = "createCheckItem" ->
         [checklistId |-> "id", name |-> "text", pos |-> "pos", checked |-> "boolean",
          due |-> "string", idMember |-> "string"]
    [] op = "updateCheckItem" ->
         [cardId |-> "id", checkItemId |-> "id", name |-> "string", state |-> "string",
          pos |-> "pos", due |-> "nullable", idMember |-> "nullable"]
    [] op = "deleteCheckItem" -> [checklistId |-> "id", checkItemId |-> "id"]
    [] op \in {"getCustomField", "deleteCustomField", "getCustomFieldOptions"} ->
         [customFieldId |-> "id"]
    [] op = "createCustomField" ->
         [idModel |-> "id", modelType |-> "text", name |-> "text", type |-> "text",
          pos |-> "pos", display_cardFront |-> "boolean"]
    [] op = "updateCustomField" ->
         [customFieldId |-> "id", name |-> "string", pos |-> "pos",
          display_cardFront |-> "boolean"]
    [] op = "addCustomFieldOption" ->
         [customFieldId |-> "id", value |-> "text", color |-> "string"]
    [] op = "deleteCustomFieldOption" -> [customFieldId |-> "id", optionId |-> "id"]
    [] op \in {"getOrganization", "deleteOrganization", "getOrganizationMembers"} -> [orgId |-> "id"]
    [] op = "createOrganization" ->
         [displayName |-> "text", desc |-> "string", name |-> "string", website |-> "string"]
    [] op = "updateOrganization" ->
         [orgId |-> "id", name |-> "string", displayName |-> "string", desc |-> "string",
          website |-> "string", prefs_permissionLevel |-> "string",
          prefs_orgInviteRestrict |-> "string",
          prefs_boardVisibilityRestrict_private |-> "string",
          prefs_boardVisibilityRestrict_org |-> "string",
          prefs_boardVisibilityRestrict_public |-> "string"]
    [] op = "getOrganizationBoards" -> [orgId |-> "id", filter |-> "filter"]
    [] op = "getAction" -> [actionId |-> "id"]
    [] op = "search" ->
         [query |-> "text", idBoards |-> "array", idOrganizations |-> "array",
          modelTypes |-> "array", cards_limit |-> "number", boards_limit |-> "number",
          partial |-> "boolean"]
    [] op = "searchMembers" -> [query |-> "text", limit |-> "limit"]
    [] op \in {"getWebhook", "deleteWebhook"} -> [webhookId |-> "id"]
    [] op = "createWebhook" ->
         [callbackURL |-> "text", idModel |-> "id", description |-> "string",
          active |-> "boolean"]
    [] op = "updateWebhook" ->
         [webhookId |-> "id", description |-> "string", callbackURL |-> "string",
          idModel |-> "string", active |-> "boolean"]
    [] OTHER -> NoFields

RequiredKinds == {"id", "text", "object"}

\* the values a parameter of each kind is given
ValuesOf(kind) ==
  CASE kind = "id" -> {Str("x1")}
    [] kind = "text" -> {Str("v")}
    [] kind = "string" -> {Str(""), Str("v")}
    [] kind = "nullable" -> {Null, Str(""), Str("v")}
    [] kind = "color" -> {Null, Str("red")}
    [] kind = "boolean" -> {Bool(TRUE), Bool(FALSE)}
    [] kind = "pos" -> {Str("top"), Str("bottom")} \cup {Num(i) : i \in 0..MaxNum}
    [] kind = "number" -> {Num(i) : i \in 0..MaxNum}
    [] kind = "limit" -> {Num(0), Num(1), Num(20), Num(21), Num(1000), Num(1001)}
    [] kind = "array" -> {Arr(<<>>), Arr(<<"a">>), Arr(<<"a", "b">>)}
    [] kind = "filter" -> {Str("all"), Str("open"), Str("closed")}
    [] kind = "object" -> {ObjV(<<<<"value", ObjV(<<<<"text", Str("v")>>>>)>>>>),
                           ObjV(<<<<"idValue", Str("o1")>>>>),
                           ObjV(<<<<"value", Str("")>>>>)}

\* a value of the kind that passes `if (x)`, and one that fails it
TruthyOf(kind) == CHOOSE v \in ValuesOf(kind) : Truthy(v)
FalsyOf(kind) ==
  IF \E v \in ValuesOf(kind) : ~Truthy(v)
  THEN CHOOSE v \in ValuesOf(kind) : ~Truthy(v)
  ELSE TruthyOf(kind)

Required(op) == {k \in DOMAIN Fields(op) : Fields(op)[k] \in RequiredKinds}
Optional(op) == DOMAIN Fields(op) \ Required(op)

\* the argument objects of op: every required parameter, and of the optional
\* ones none, one alone with each of its values, or all of them together
Inputs(op) ==
  LET F == Fields(op)
      bases == IF Required(op) = {} THEN {NoFields}
               ELSE {f \in [Required(op) -> UNION {ValuesOf(F[k]) : k \in Required(op)}] :
                       \A k \in Required(op) : f[k] \in ValuesOf(F[k])}
      extras == {NoFields}
                \cup UNION {{[j \in {k} |-> v] : v \in ValuesOf(F[k])} : k \in Optional(op)}
                \cup (IF Optional(op) = {} THEN {}
                      ELSE {[k \in Optional(op) |-> TruthyOf(F[k])],
                            [k \in Optional(op) |-> FalsyOf(F[k])]})
  IN {b @@ e : b \in bases, e \in extras}

Ops ==
  {"testConnection", "getMe", "getMember", "getMemberBoards", "getMemberCards",
   "getMemberOrganizations", "listBoards", "getBoard", "createBoard", "updateBoard",
   "deleteBoard", "getBoardMembers", "getBoardLists", "getBoardCards", "getBoardLabels",
   "getBoardActions", "getBoardChecklists", "getBoardCustomFields", "addMemberToBoard",
   "removeMemberFromBoard", "getList", "createList", "updateList", "archiveList",
   "unarchiveList", "getListCards", "archiveAllCardsInList", "moveAllCardsInList",
   "getCard", "createCard", "updateCard", "deleteCard", "archiveCard", "unarchiveCard",
   "moveCard", "getCardActions", "getCardAttachments", "addAttachmentToCard",
   "deleteAttachment", "getCardChecklists", "addCommentToCard", "getCardComments",
   "updateComment", "deleteComment", "addLabelToCard", "removeLabelFromCard",
   "addMemberToCard", "removeMemberFromCard", "getCardCustomFieldItems",
   "setCardCustomFieldValue", "getLabel", "createLabel", "updateLabel", "deleteLabel",
   "getChecklist", "createChecklist", "updateChecklist", "deleteChecklist",
   "getCheckItems", "createCheckItem", "updateCheckItem", "deleteCheckItem",
   "getCustomField", "createCustomField", "updateCustomField", "deleteCustomField",
   "getCustomFieldOptions", "addCustomFieldOption", "deleteCustomFieldOption",
   "getOrganization", "createOrganization", "updateOrganization", "deleteOrganization",
   "getOrganizationMembers", "getOrganizationBoards", "getAction", "search",
   "searchMembers", "getWebhook", "getWebhooks", "createWebhook", "updateWebhook",
   "deleteWebhook"}

\* ------------------------------------------------------------------------
\* Upstream responses
\* ------------------------------------------------------------------------
Statuses == {200, 204, 401, 404, 429, 500}
\* Retry-After: absent, empty, zero, a number of seconds, an HTTP date
RetryAfters ==
  {NoHeader, Header(<<>>), Header(<<"0">>), Header(<<"3", "0">>), Header(<<"W", "e", "d">>)}
Bodies == {""} \cup JsonTexts \cup {NotJson}
Response(status, retryAfter, body) == [status |-> status, retryAfter |-> retryAfter, body |-> body]
NoResponse == Response(0, NoHeader, "")
\* the helper reads Retry-After under status 429 only, so only there it varies
Responses ==
  {Response(st, h, b) : st \in Statuses \ {429}, h \in {NoHeader}, b \in Bodies}
  \cup {Response(429, h, b) : h \in RetryAfters, b \in Bodies}

\* ------------------------------------------------------------------------
\* Inbound dispatcher: requests and answers
\* ------------------------------------------------------------------------
SERVER_NAME == "primrose-mcp-trello"
SERVER_VERSION == "1.0.0"

\* an inbound request: the path of its URL, its method and the values of
\* headers.get('X-Trello-API-Key') and headers.get('X-Trello-Token'), null
\* for a header the request does not carry
Request(pathname, method, apiKey, token) ==
  [pathname |-> pathname, method |-> method, apiKey |-> apiKey, token |-> token]
NoRequest == Request("", "", Null, Null)

\* new Response(body, { status, headers })
HttpResponse(status, contentType, body) ==
  [status |-> status, contentType |-> contentType, body |-> body]
NoHttp == HttpResponse(0, "", "")

\* headers.get(name) || ''
OrEmptyString(v) == IF Truthy(v) THEN v.s ELSE ""

parseTenantCredentials(request) ==
  [apiKey |-> OrEmptyString(request.apiKey), token |-> OrEmptyString(request.token)]

\* a validation that looks at the API key only
validateCredentials_keyOnly(credentials) ==
  IF credentials.apiKey = ""
  THEN Throw("Error", "Missing X-Trello-API-Key header. Get your API key from https://trello.com/power-ups/admin")
  ELSE Return(Undefined)

validateCredentials(credentials) ==
  IF credentials.apiKey = ""
  THEN Throw("Error", "Missing X-Trello-API-Key header. Get your API key from https://trello.com/power-ups/admin")
  ELSE IF credentials.token = ""
  THEN Throw("Error", "Missing X-Trello-Token header. Get your token from https://trello.com/power-ups/admin")
  ELSE Return(Undefined)

\* the payload of /health
HealthPayload == ObjV(<<<<"status", Str("ok")>>, <<"server", Str(SERVER_NAME)>>>>)

\* the payload of the 401 answer of /mcp
Unauthorized(error) ==
  ObjV(<<<<"error", Str("Unauthorized")>>,
         <<"message", Str(IF InstanceOfError(error) THEN error.message ELSE "Invalid credentials")>>,
         <<"required_headers", ListV(<<Str("X-Trello-API-Key"), Str("X-Trello-Token")>>)>>,
         <<"get_credentials", Str("https://trello.com/power-ups/admin")>>>>)

available_tools ==
  <<"trello_list_boards", "trello_get_board", "trello_create_board", "trello_update_board",
    "trello_delete_board", "trello_get_board_lists", "trello_get_board_cards",
    "trello_get_board_members", "trello_get_board_labels", "trello_get_board_actions",
    "trello_add_board_member", "trello_remove_board_member",
    "trello_get_board_custom_fields", "trello_get_list", "trello_create_list",
    "trello_update_list", "trello_archive_list", "trello_unarchive_list",
    "trello_get_list_cards", "trello_archive_all_cards_in_list",
    "trello_move_all_cards_in_list", "trello_get_card", "trello_create_card",
    "trello_update_card", "trello_delete_card", "trello_archive_card",
    "trello_unarchive_card", "trello_move_card", "trello_add_comment",
    "trello_get_card_comments", "trello_add_label_to_card",
    "trello_remove_label_from_card", "trello_add_member_to_card",
    "trello_remove_member_from_card", "trello_get_card_attachments",
    "trello_add_attachment", "trello_delete_attachment", "trello_get_card_custom_fields",
    "trello_set_card_custom_field", "trello_get_checklist", "trello_create_checklist",
    "trello_update_checklist", "trello_delete_checklist", "trello_get_card_checklists",
    "trello_create_check_item", "trello_update_check_item", "trello_delete_check_item",
    "trello_get_label", "trello_create_label", "trello_update_label",
    "trello_delete_label", "trello_get_me", "trello_get_member",
    "trello_get_member_boards", "trello_get_member_cards",
    "trello_get_member_organizations", "trello_search_members", "trello_get_organization",
    "trello_create_organization", "trello_update_organization",
    "trello_delete_organization", "trello_get_organization_members",
    "trello_get_organization_boards", "trello_search", "trello_list_webhooks",
    "trello_get_webhook", "trello_create_webhook", "trello_update_webhook",
    "trello_delete_webhook", "trello_get_custom_field", "trello_create_custom_field",
    "trello_update_custom_field", "trello_delete_custom_field",
    "trello_get_custom_field_options", "trello_add_custom_field_option",
    "trello_delete_custom_field_option", "trello_test_connection">>

\* the payload of the default answer
InfoPage ==
  ObjV(<<<<"name", Str(SERVER_NAME)>>,
         <<"version", Str(SERVER_VERSION)>>,
         <<"description", Str("Multi-tenant Trello MCP Server")>>,
         <<"endpoints",
           ObjV(<<<<"mcp", Str("/mcp (POST) - Streamable HTTP MCP endpoint")>>,
                  <<"health", Str("/health - Health check")>>>>)>>,
         <<"authentication",
           ObjV(<<<<"description", Str("Pass tenant credentials via request headers")>>,
                  <<"required_headers",
                    ObjV(<<<<"X-Trello-API-Key", Str("Trello API key")>>,
                           <<"X-Trello-Token", Str("Trello API token")>>>>)>>,
                  <<"get_credentials", Str("https://trello.com/power-ups/admin")>>>>)>>,
         <<"available_tools", ListV([i \in 1..Len(available_tools) |-> Str(available_tools[i])])>>>>)

\* ------------------------------------------------------------------------
\* Inbound requests: one MCP server and one client per request
\* ------------------------------------------------------------------------
\* the credentials of the tenants, as sent in X-Trello-API-Key / X-Trello-Token
Credentials(apiKey, token) == [apiKey |-> apiKey, token |-> token]
Tenants == {Credentials("key1", "tok1"), Credentials("key2", "tok2")}
NoCredentials == Credentials("", "")

\* a client built on credentials of the process instead of those of the request
createTrelloClient_global(credentials) == [credentials |-> Credentials("key1", "tok1")]

\* new TrelloClientImpl(credentials)
createTrelloClient(credentials) == [credentials |-> credentials]

NoClient == [credentials |-> NoCredentials]

Slots == 1..MaxInbound

VARIABLES
  \* sess[r]: the inbound request being served in slot r, the answer of the
  \* dispatcher if it has answered it, its server's client and the tool call it
  \* is running
  sess,
  \* rend: the call of the response renderer being looked at, its arguments
  \* and the envelope it returned
  rend

vars == <<sess, rend>>

Closed ==
  [pc |-> "closed", request |-> NoRequest, http |-> NoHttp, headers |-> NoCredentials, client |-> NoClient, op |-> "", tool |-> "",
   a |-> NoFields, sent |-> <<>>, resp |-> NoResponse, requested |-> NoOutcome,
   ended |-> NoOutcome, envelope |-> NoEnvelope]

\* createStatelessServer(credentials): the state of a request that passed
\* validateCredentials
createStatelessServer(credentials) ==
  [Closed EXCEPT !.pc = "ready", !.headers = credentials,
                 !.client = createTrelloClient(credentials)]

\* a client operation runs up to `await fetch(...)`: the request is on the wire
invoke(s, op, a) ==
  [s EXCEPT !.pc = "awaiting", !.op = op, !.tool = ToolOf(op), !.a = a,
            !.sent = Append(@, requestSend(s.client.credentials,
                                           ClientCall(s.client.credentials, op, a)))]

\* a call that sends its request a second time after a rate limit
resume_retry(s, requested) ==
  IF requested.cls = "RateLimitError" /\ Len(s.sent) = 1
  THEN [s EXCEPT !.sent = Append(@, @[1])]
  ELSE LET ended == ClientSettle(s.op, requested)
       IN [s EXCEPT !.pc = "done", !.requested = requested, !.ended = ended,
                    !.envelope = ToolSettle(s.tool, s.a, ended)]

\* the call resumes after `await fetch(...)` with the way the request ended:
\* the operation returns or throws and the handler of the tool returns
resume(s, requested) ==
  LET ended == ClientSettle(s.op, requested)
  IN [s EXCEPT !.pc = "done", !.requested = requested, !.ended = ended,
               !.envelope = ToolSettle(s.tool, s.a, ended)]

\* no call of the renderer
NoRender ==
  [pc |-> "idle", data |-> Undefined, format |-> "", entityType |-> "", error |-> NoOutcome,
   envelope |-> NoEnvelope]

Init ==
  /\ sess = [r \in Slots |-> Closed]
  /\ rend = NoRender

\* POST /mcp with the headers of a tenant
Open(r, credentials) ==
  /\ sess[r].pc = "closed"
  /\ sess' = [sess EXCEPT ![r] = createStatelessServer(credentials)]
  /\ UNCHANGED rend

\* z.number().int().min(lo).max(hi) on an optional argument
between(v, lo, hi) == ~Defined(v) \/ (v.t = "number" /\ v.n >= lo /\ v.n <= hi)

\* a schema that accepts every limit
schemaAccepts_any(tool, a) == TRUE

\* the limits of the argument schemas of the tools: the MCP server parses the
\* arguments with the schema before it calls the handler; an operation no
\* tool calls has no schema
schemaAccepts(tool, a) ==
  CASE tool = "trello_get_board_actions" -> between(Get(a, "limit"), 1, 1000)
    [] tool = "trello_search_members" -> between(Get(a, "limit"), 1, 20)
    [] tool = "trello_search" ->
         between(Get(a, "cards_limit"), 1, 1000) /\ between(Get(a, "boards_limit"), 1, 1000)
    [] OTHER -> TRUE

Invoke(r, op, a) ==
  /\ sess[r].pc = "ready"
  /\ schemaAccepts(ToolOf(op), a)
  /\ sess' = [sess EXCEPT ![r] = invoke(@, op, a)]
  /\ UNCHANGED rend

\* the arguments of a tool call fail its schema: the handler is not called
Reject(r, op, a) ==
  /\ sess[r].pc = "ready"
  /\ ~schemaAccepts(ToolOf(op), a)
  /\ sess' = [sess EXCEPT ![r] = [@ EXCEPT !.pc = "rejected", !.op = op, !.tool = ToolOf(op),
                                            !.a = a]]
  /\ UNCHANGED rend

Respond(r, resp) ==
  /\ sess[r].pc = "awaiting"
  /\ sess' = [sess EXCEPT ![r] = resume([@ EXCEPT !.resp = resp], requestSettle(resp))]
  /\ UNCHANGED rend

FetchFails(r) ==
  /\ sess[r].pc = "awaiting"
  /\ sess' = [sess EXCEPT ![r] = resume(@, fetchRejects)]
  /\ UNCHANGED rend

\* the envelope is handed to the MCP transport; the server can run another call
Deliver(r) ==
  /\ sess[r].pc \in {"done", "rejected"}
  /\ sess' = [sess EXCEPT ![r] = [Closed EXCEPT !.pc = "ready", !.request = sess[r].request,
                                                 !.headers = sess[r].headers,
                                                 !.client = sess[r].client]]
  /\ UNCHANGED rend

\* the inbound request is answered; its server and client are dropped
Close(r) ==
  /\ sess[r].pc = "ready"
  /\ sess' = [sess EXCEPT ![r] = Closed]
  /\ UNCHANGED rend

\* the dispatcher answers the request itself
answer(request, http) == [Closed EXCEPT !.pc = "answered", !.request = request, !.http = http]

\* a dispatcher that validates the credentials of /mcp under every method
fetch_anyMethod(request) ==
  IF request.pathname = "/health"
  THEN answer(request, HttpResponse(200, "application/json", JSONstringify(HealthPayload)))
  ELSE IF request.pathname = "/mcp"
  THEN LET credentials == parseTenantCredentials(request)
           error == validateCredentials(credentials)
       IN IF error.kind = "throw"
          THEN [answer(request, HttpResponse(401, "application/json",
                                             JSONstringify(Unauthorized(error))))
                  EXCEPT !.headers = credentials]
          ELSE [createStatelessServer(credentials) EXCEPT !.request = request]
  ELSE IF request.pathname = "/sse"
  THEN answer(request, HttpResponse(501, "text/plain;charset=UTF-8",
                "SSE endpoint requires Durable Objects. Enable in wrangler.jsonc."))
  ELSE answer(request, HttpResponse(200, "application/json", JSONstringify(InfoPage)))

\* fetch(request, env, ctx): the slot after the dispatcher has answered the
\* request or has built the server that handles it
fetch(request) ==
  IF request.pathname = "/health"
  THEN answer(request, HttpResponse(200, "application/json", JSONstringify(HealthPayload)))
  ELSE IF request.pathname = "/mcp" /\ request.method = "POST"
  THEN LET credentials == parseTenantCredentials(request)
           error == validateCredentials(credentials)
       IN IF error.kind = "throw"
          THEN [answer(request, HttpResponse(401, "application/json",
                                             JSONstringify(Unauthorized(error))))
                  EXCEPT !.headers = credentials]
          ELSE [createStatelessServer(credentials) EXCEPT !.request = request]
  ELSE IF request.pathname = "/sse"
  THEN answer(request, HttpResponse(501, "text/plain;charset=UTF-8",
                "SSE endpoint requires Durable Objects. Enable in wrangler.jsonc."))
  ELSE answer(request, HttpResponse(200, "application/json", JSONstringify(InfoPage)))

\* an inbound request reaches the Worker
Fetch(r, request) ==
  /\ \A q \in Slots : sess[q].pc = "closed"
  /\ sess' = [sess EXCEPT ![r] = fetch(request)]
  /\ UNCHANGED rend

\* the answer of the dispatcher is sent
Answer(r) ==
  /\ sess[r].pc = "answered"
  /\ sess' = [sess EXCEPT ![r] = Closed]
  /\ UNCHANGED rend

\* inbound requests served one after the other, every operation of the client
OpenAlone(r, credentials) ==
  /\ \A q \in Slots \ {r} : sess[q].pc = "closed"
  /\ Open(r, credentials)

Next ==
  \/ \E r \in Slots, credentials \in Tenants : OpenAlone(r, credentials)
  \/ \E r \in Slots, op \in Ops : \E a \in Inputs(op) : Invoke(r, op, a)
  \/ \E r \in Slots, op \in Ops : \E a \in Inputs(op) : Reject(r, op, a)
  \/ \E r \in Slots, resp \in Responses : Respond(r, resp)
  \/ \E r \in Slots : FetchFails(r)
  \/ \E r \in Slots : Deliver(r)
  \/ \E r \in Slots : Close(r)

Spec == Init /\ [][Next]_vars

\* inbound requests of several tenants served at the same time
ConcOps == {"getWebhooks", "archiveCard", "testConnection"}
ConcResponses ==
  {Response(200, NoHeader, JSONstringify(MemberAnn)), Response(401, NoHeader, ""),
   Response(429, NoHeader, "")}

NextConc ==
  \/ \E r \in Slots, credentials \in Tenants : Open(r, credentials)
  \/ \E r \in Slots, op \in ConcOps : \E a \in Inputs(op) : Invoke(r, op, a)
  \/ \E r \in Slots, resp \in ConcResponses : Respond(r, resp)
  \/ \E r \in Slots : FetchFails(r)
  \/ \E r \in Slots : Deliver(r)
  \/ \E r \in Slots : Close(r)

SpecConc == Init /\ [][NextConc]_vars

\* inbound requests of every path and method, with and without credentials
Pathnames == {"/health", "/mcp", "/sse", "/"}
Methods == {"GET", "POST"}
HeaderValues(value) == {Null, Str(""), Str(value)}
Requests ==
  {Request(pathname, method, apiKey, token) :
     pathname \in Pathnames, method \in Methods,
     apiKey \in HeaderValues("key1"), token \in HeaderValues("tok1")}

NextHttp ==
  \/ \E r \in Slots, request \in Requests : Fetch(r, request)
  \/ \E r \in Slots : Answer(r)
  \/ \E r \in Slots, op \in ConcOps : \E a \in Inputs(op) : Invoke(r, op, a)
  \/ \E r \in Slots, resp \in ConcResponses : Respond(r, resp)
  \/ \E r \in Slots : FetchFails(r)
  \/ \E r \in Slots : Deliver(r)
  \/ \E r \in Slots : Close(r)

SpecHttp == Init /\ [][NextHttp]_vars

\* ------------------------------------------------------------------------
\* Calls of the response renderer
\* ------------------------------------------------------------------------
\* the most entities a rendered list holds
MaxItems == 2
\* the most items a rendered checklist holds
MaxCheckItems == 2

\* the lists of at most n elements of S
ListsOf(S, n) == UNION {[1..k -> S] : k \in 0..n}

\* names without and with the characters of the table layout
Names == {"Plan", "a|b", "x\ny"}

TrelloBoard(id, name, closed) ==
  ObjV(<<<<"id", Str(id)>>, <<"name", Str(name)>>, <<"desc", Str("")>>,
         <<"closed", Bool(closed)>>, <<"shortUrl", Str("https://trello.com/b/" \o id)>>>>)
TrelloBoards ==
  {TrelloBoard("b1", "Plan", FALSE), TrelloBoard("b2", "a|b", TRUE),
   TrelloBoard("b3", "x\ny", FALSE)}

TrelloList(id, name, closed, pos) ==
  ObjV(<<<<"id", Str(id)>>, <<"name", Str(name)>>, <<"closed", Bool(closed)>>,
         <<"idBoard", Str("b1")>>, <<"pos", Num(pos)>>>>)
TrelloLists ==
  {TrelloList("l1", "Plan", FALSE, 1), TrelloList("l2", "a|b", TRUE, 2),
   TrelloList("l3", "x\ny", FALSE, 3)}

TrelloCard(id, name, closed, due, dueComplete) ==
  ObjV(<<<<"id", Str(id)>>, <<"name", Str(name)>>, <<"closed", Bool(closed)>>,
         <<"due", due>>, <<"dueComplete", Bool(dueComplete)>>,
         <<"shortUrl", Str("https://trello.com/c/" \o id)>>>>)
TrelloCards ==
  {TrelloCard("c1", "Plan", FALSE, Null, FALSE),
   TrelloCard("c2", "a|b", TRUE, Str("2026-11-05T00:00:00.000Z"), TRUE),
   TrelloCard("c3", "x\ny", FALSE, Str("2026-11-05T00:00:00.000Z"), FALSE)}

TrelloLabel(id, name, color) ==
  ObjV(<<<<"id", Str(id)>>, <<"idBoard", Str("b1")>>, <<"name", Str(name)>>, <<"color", color>>>>)
TrelloLabels ==
  {TrelloLabel("g1", "", Null), TrelloLabel("g2", "a|b", Str("red")),
   TrelloLabel("g3", "x\ny", Str("blue"))}

TrelloMember(id, username, fullName) ==
  ObjV(<<<<"id", Str(id)>>, <<"username", Str(username)>>, <<"fullName", Str(fullName)>>,
         <<"avatarHash", Null>>>>)
TrelloMembers ==
  {TrelloMember("m1", "ann", "Ann"), TrelloMember("m2", "bob", "a|b"),
   TrelloMember("m3", "cy", "x\ny")}

TrelloOrganization(id, displayName) ==
  ObjV(<<<<"id", Str(id)>>, <<"name", Str(id)>>, <<"displayName", Str(displayName)>>,
         <<"url", Str("https://trello.com/w/" \o id)>>>>)
TrelloOrganizations ==
  {TrelloOrganization("o1", "Plan"), TrelloOrganization("o2", "a|b"),
   TrelloOrganization("o3", "x\ny")}

TrelloCheckItem(id, name, state) ==
  ObjV(<<<<"id", Str(id)>>, <<"name", Str(name)>>, <<"state", Str(state)>>>>)
TrelloCheckItems ==
  {TrelloCheckItem("i1", "a|b", "complete"), TrelloCheckItem("i2", "x\ny", "incomplete")}
TrelloChecklist(id, name, checkItems) ==
  ObjV(<<<<"id", Str(id)>>, <<"name", Str(name)>>, <<"idCard", Str("c1")>>,
         <<"checkItems", ListV(checkItems)>>>>)
TrelloChecklists ==
  {TrelloChecklist("k1", "To|do", checkItems) : checkItems \in ListsOf(TrelloCheckItems, MaxCheckItems)}

\* a comment action, an entity the renderer has no table of its own for
TrelloAction(id, text) ==
  ObjV(<<<<"id", Str(id)>>, <<"type", Str("commentCard")>>, <<"text", Str(text)>>,
         <<"data", ObjV(<<<<"text", Str(text)>>>>)>>, <<"idMemberCreator", Null>>>>)
TrelloActions == {TrelloAction("a1", "Plan"), TrelloAction("a2", "a|b"), TrelloAction("a3", "x\ny")}

\* the entity kinds the tools hand to formatResponse for a list
ListTypes ==
  {"boards", "lists", "cards", "labels", "members", "checklists", "organizations", "actions",
   "comments", "attachments", "customFields", "customFieldItems", "customFieldOptions",
   "webhooks"}

\* the entities of each kind
EntitiesOf(entityType) ==
  CASE entityType \in {"boards", "board"} -> TrelloBoards
    [] entityType \in {"lists", "list"} -> TrelloLists
    [] entityType \in {"cards", "card"} -> TrelloCards
    [] entityType \in {"labels", "label"} -> TrelloLabels
    [] entityType \in {"members", "member"} -> TrelloMembers
    [] entityType \in {"checklists", "checklist"} -> TrelloChecklists
    [] entityType \in {"organizations", "organization"} -> TrelloOrganizations
    [] entityType \in {"actions", "comments"} -> TrelloActions
    [] OTHER -> {}

\* the arguments <<data, entityType>> of the calls of formatResponse: lists of
\* entities under their kind, single entities, and the result of a call that
\* returned nothing
RenderInputs ==
  UNION {{<<ListV(q), entityType>> : q \in ListsOf(EntitiesOf(entityType), MaxItems)} :
           entityType \in ListTypes}
  \cup UNION {{<<e, entityType>> : e \in EntitiesOf(entityType)} :
                entityType \in {"board", "list", "card", "label", "member", "checklist",
                                "organization"}}
  \cup {<<Undefined, "board">>, <<Null, "searchResults">>}

\* the values a handler can catch: the errors of the client and values that
\* are no Error
Thrown ==
  {RateLimitError("Rate limit exceeded", Number(30)),
   AuthenticationError("Invalid API key or token"),
   ApiError("Trello API error: not found", 404),
   ApiError("Trello API error: ", 500),
   fetchRejects,
   Throw("SyntaxError", "Unexpected token in JSON"),
   ThrowValue(Str("boom")), ThrowValue(Undefined), ThrowValue(ObjV(<<<<"code", Num(1)>>>>))}

\* a handler returns formatResponse(data, format, entityType)
FormatResponse(data, format, entityType) ==
  /\ rend.pc = "idle"
  /\ rend' = [NoRender EXCEPT !.pc = "rendered", !.data = data, !.format = format,
                              !.entityType = entityType,
                              !.envelope = formatResponse(data, format, entityType)]
  /\ UNCHANGED sess

\* a handler returns formatError(error)
FormatError(error) ==
  /\ rend.pc = "idle"
  /\ rend' = [NoRender EXCEPT !.pc = "failed", !.error = error, !.envelope = formatError(error)]
  /\ UNCHANGED sess

\* the envelope is handed over
Handed ==
  /\ rend.pc # "idle"
  /\ rend' = NoRender
  /\ UNCHANGED sess

NextFmt ==
  \/ \E input \in RenderInputs, format \in {"json", "markdown"} :
       FormatResponse(input[1], format, input[2])
  \/ \E error \in Thrown : FormatError(error)
  \/ Handed

SpecFmt == Init /\ [][NextFmt]_vars

\* ------------------------------------------------------------------------
\* Properties
\* ------------------------------------------------------------------------
\* the slots whose call has put its request on the wire
Sent == {r \in Slots : sess[r].pc \in {"awaiting", "done"}}
\* the slots whose call has ended
Done == {r \in Slots : sess[r].pc = "done"}
\* the query parameters of the request of the call in slot r
ParamsOf(r) == sess[r].sent[1].params

\* the fields an update clears with null, as <<operation, field, wire name>>
ClearableFields ==
  {<<"updateCard", "due", "due">>, <<"updateCard", "start", "start">>,
   <<"updateCheckItem", "due", "due">>, <<"updateCheckItem", "idMember", "idMember">>,
   <<"updateLabel", "color", "color">>}

\* C1: a clearable field supplied as null is on the wire under its name with
\* the empty string as value; it is never left out of the request.
C1_NullSentAsEmpty ==
  \A r \in Sent : \A f \in ClearableFields :
    (sess[r].op = f[1] /\ Get(sess[r].a, f[2]).t = "null")
      => (f[3] \in DOMAIN ParamsOf(r) /\ ParamsOf(r)[f[3]] = "")

\* the create and update operations of the client, the derived ones included
CreateUpdateOps ==
  {"createBoard", "updateBoard", "createList", "updateList", "archiveList", "unarchiveList",
   "createCard", "updateCard", "archiveCard", "unarchiveCard", "moveCard",
   "addAttachmentToCard", "createLabel", "updateLabel", "createChecklist", "updateChecklist",
   "createCheckItem", "updateCheckItem", "createCustomField", "updateCustomField",
   "addCustomFieldOption", "createOrganization", "updateOrganization", "createWebhook",
   "updateWebhook", "updateComment", "setCardCustomFieldValue"}

\* the name a field of an input goes on the wire under
WireName(op, f) ==
  CASE op \in {"updateBoard", "updateOrganization"} /\ f = "prefs_permissionLevel" -> "prefs/permissionLevel"
    [] op = "updateBoard" /\ f = "prefs_selfJoin" -> "prefs/selfJoin"
    [] op = "updateBoard" /\ f = "prefs_cardCovers" -> "prefs/cardCovers"
    [] op = "updateBoard" /\ f = "prefs_hideVotes" -> "prefs/hideVotes"
    [] op = "updateBoard" /\ f = "prefs_invitations" -> "prefs/invitations"
    [] op = "updateBoard" /\ f = "prefs_voting" -> "prefs/voting"
    [] op = "updateBoard" /\ f = "prefs_comments" -> "prefs/comments"
    [] op = "updateBoard" /\ f = "prefs_background" -> "prefs/background"
    [] op = "updateBoard" /\ f = "prefs_cardAging" -> "prefs/cardAging"
    [] op = "updateBoard" /\ f = "prefs_calendarFeedEnabled" -> "prefs/calendarFeedEnabled"
    [] op = "updateBoard" /\ f = "labelNames_green" -> "labelNames/green"
    [] op = "updateBoard" /\ f = "labelNames_yellow" -> "labelNames/yellow"
    [] op = "updateBoard" /\ f = "labelNames_orange" -> "labelNames/orange"
    [] op = "updateBoard" /\ f = "labelNames_red" -> "labelNames/red"
    [] op = "updateBoard" /\ f = "labelNames_purple" -> "labelNames/purple"
    [] op = "updateBoard" /\ f = "labelNames_blue" -> "labelNames/blue"
    [] op = "updateCustomField" /\ f = "display_cardFront" -> "display/cardFront"
    [] op = "updateOrganization" /\ f = "prefs_orgInviteRestrict" -> "prefs/orgInviteRestrict"
    [] op = "updateOrganization" /\ f = "prefs_boardVisibilityRestrict_private" ->
         "prefs/boardVisibilityRestrict/private"
    [] op = "updateOrganization" /\ f = "prefs_boardVisibilityRestrict_org" ->
         "prefs/boardVisibilityRestrict/org"
    [] op = "updateOrganization" /\ f = "prefs_boardVisibilityRestrict_public" ->
         "prefs/boardVisibilityRestrict/public"
    [] OTHER -> f

\* C2: an optional field of a create or update operation that the caller did
\* not supply has no entry under its wire name in the request.
C2_OmittedNotSent ==
  \A r \in Sent :
    sess[r].op \in CreateUpdateOps =>
      \A f \in Optional(sess[r].op) :
        ~Defined(Get(sess[r].a, f)) => WireName(sess[r].op, f) \notin DOMAIN ParamsOf(r)

\* createCard called with a position and without due has sent pos and no due
C2_Witness ==
  \E r \in Sent :
    /\ sess[r].op = "createCard"
    /\ ~Defined(Get(sess[r].a, "due"))
    /\ Defined(Get(sess[r].a, "pos"))
    /\ "pos" \in DOMAIN ParamsOf(r)
    /\ "due" \notin DOMAIN ParamsOf(r)

\* C3: a call issues exactly one outbound request, whatever the response; no
\* second request follows a 429 or any other failure.
C3_OneRequestPerCall ==
  \A r \in Slots :
    /\ sess[r].pc \in {"awaiting", "done"} => Len(sess[r].sent) = 1
    /\ sess[r].pc \in {"closed", "ready"} => Len(sess[r].sent) = 0

\* a derived operation has ended on a 429 with its one request
C3_Witness ==
  \E r \in Done :
    /\ sess[r].op \in {"moveCard", "archiveList", "listBoards", "testConnection"}
    /\ sess[r].resp.status = 429
    /\ Len(sess[r].sent) = 1

AllDigits(q) == Len(q) > 0 /\ \A i \in 1..Len(q) : IsDigit(q[i])

\* C4: a 429 fails the request with a retryable RateLimitError whose delay is
\* the number of seconds of the Retry-After header when the header is there
\* (an empty header counting as none), and 60 when it is not.
C4_RetryAfterDelay ==
  \A r \in Done :
    sess[r].resp.status = 429 =>
      LET h == sess[r].resp.retryAfter
          e == sess[r].requested
      IN /\ e.kind = "throw" /\ e.cls = "RateLimitError" /\ Retryable(e)
         /\ IF h.present /\ Len(h.chars) > 0
            THEN ~e.retryAfter.nan
                 /\ (AllDigits(h.chars) => e.retryAfter.n = digitsPrefix(h.chars, 0))
            ELSE e.retryAfter = Number(60)

\* C5: a 401 makes every operation fail with an AuthenticationError.
C5_UnauthorizedFails ==
  \A r \in Done :
    sess[r].resp.status = 401 =>
      sess[r].ended.kind = "throw" /\ sess[r].ended.cls = "AuthenticationError"

\* C6: an operation whose request failed fails with exactly the error of the
\* transport helper; none returns a value instead.
C6_NeverSwallows ==
  \A r \in Done :
    sess[r].requested.kind = "throw" => sess[r].ended = sess[r].requested

\* C7: a tool whose outbound request failed returns an envelope with isError.
C7_FailureIsError ==
  \A r \in Done :
    (sess[r].tool # "" /\ sess[r].requested.kind = "throw")
      => (sess[r].envelope.returned /\ sess[r].envelope.isError)

\* C8: every outbound request of an inbound request carries the key and the
\* token of that inbound request, whatever the other inbound requests do.
C8_OwnCredentials ==
  \A r \in Slots : \A i \in 1..Len(sess[r].sent) :
    LET q == sess[r].sent[i].params
    IN /\ "key" \in DOMAIN q /\ q["key"] = sess[r].headers.apiKey
       /\ "token" \in DOMAIN q /\ q["token"] = sess[r].headers.token

\* two tenants have a request on the wire at the same time
C8_Witness ==
  \E r1 \in Sent, r2 \in Sent :
    /\ sess[r1].headers # sess[r2].headers
    /\ sess[r1].pc = "awaiting"
    /\ ParamsOf(r1)["key"] = "key1" /\ ParamsOf(r2)["key"] = "key2"

\* C9: every outbound request has the parameters key and token, equal to the
\* credentials the client was constructed with.
C9_AuthParams ==
  \A r \in Slots : \A i \in 1..Len(sess[r].sent) :
    LET q == sess[r].sent[i].params
    IN /\ {"key", "token"} \subseteq DOMAIN q
       /\ q["key"] = sess[r].client.credentials.apiKey
       /\ q["token"] = sess[r].client.credentials.token

\* a request with operation parameters next to the credentials
C9_Witness ==
  \E r \in Sent :
    /\ sess[r].op = "updateCard"
    /\ DOMAIN ParamsOf(r) = {"key", "token", "name", "desc", "closed", "idList", "idBoard",
                             "pos", "due", "start", "dueComplete", "subscribed"}
    /\ ParamsOf(r)["token"] = sess[r].client.credentials.token

\* C10: setCardCustomFieldValue (PUT) and addCustomFieldOption (POST) send
\* their value as a JSON body and nothing but the credentials in the query;
\* every other operation sends no body.
C10_JsonBodies ==
  \A r \in Sent :
    LET q == sess[r].sent[1]
        a == sess[r].a
    IN /\ q.body # NoBody <=> sess[r].op \in {"setCardCustomFieldValue", "addCustomFieldOption"}
       /\ sess[r].op = "setCardCustomFieldValue" =>
            /\ q.method = "PUT" /\ DOMAIN q.params = {"key", "token"}
            /\ a["value"] = ObjV(<<<<"idValue", Str("o1")>>>>) => q.body = "{\"idValue\":\"o1\"}"
            /\ a["value"] = ObjV(<<<<"value", ObjV(<<<<"text", Str("v")>>>>)>>>>)
                 => q.body = "{\"value\":{\"text\":\"v\"}}"
       /\ sess[r].op = "addCustomFieldOption" =>
            /\ q.method = "POST" /\ DOMAIN q.params = {"key", "token"}
            /\ q.body = IF Truthy(Get(a, "color"))
                        THEN "{\"value\":{\"text\":\"v\"},\"color\":\"v\"}"
                        ELSE "{\"value\":{\"text\":\"v\"}}"
       /\ (sess[r].op \in CreateUpdateOps /\ q.body = NoBody) =>
            \A f \in DOMAIN a :
              WireName(sess[r].op, f) \in DOMAIN q.params
                => q.params[WireName(sess[r].op, f)] = String(a[f])

\* both operations have sent their body
C10_Witness ==
  \E r \in Sent :
    /\ sess[r].op = "addCustomFieldOption"
    /\ Truthy(Get(sess[r].a, "color"))
    /\ sess[r].sent[1].body = "{\"value\":{\"text\":\"v\"},\"color\":\"v\"}"
    /\ sess[r].sent[1].method = "POST"

\* the read operations that take a status filter
FilterOps ==
  {"listBoards", "getMemberBoards", "getBoardLists", "getBoardCards", "getListCards",
   "getOrganizationBoards"}

\* C11: a filtered read called without a filter sends filter=open; called with
\* all it sends filter=all and returns the whole deserialized response, the
\* closed entities with the open ones, and so does the tool built on it.
C11_FilterDefault ==
  \A r \in Sent :
    sess[r].op \in FilterOps =>
      LET filter == Get(sess[r].a, "filter")
      IN /\ ~Defined(filter) =>
              ("filter" \in DOMAIN ParamsOf(r) /\ ParamsOf(r)["filter"] = "open")
         /\ filter = Str("all") =>
              /\ "filter" \in DOMAIN ParamsOf(r) /\ ParamsOf(r)["filter"] = "all"
              /\ (r \in Done /\ sess[r].resp = Response(200, NoHeader, JSONstringify(BoardsBoth)))
                   => /\ sess[r].ended = Return(ListV(<<BoardOne, BoardOld>>))
                      /\ sess[r].tool # ""
                      /\ sess[r].envelope.returned /\ ~sess[r].envelope.isError

\* a filtered read called with all has returned an open and a closed board,
\* and one called without a filter has sent filter=open
C11_Witness ==
  \E r \in Done :
    /\ sess[r].op = "getBoardCards"
    /\ ~Defined(Get(sess[r].a, "filter"))
    /\ ParamsOf(r)["filter"] = "open"
    /\ sess[r].ended = Return(BoardsBoth)

\* C12: archiving a list or a card is a PUT on the item whose only operation
\* parameter is closed=true, unarchiving one whose only operation parameter
\* is closed=false.
C12_ArchiveIsUpdate ==
  \A r \in Sent :
    LET q == sess[r].sent[1]
        op == sess[r].op
    IN op \in {"archiveList", "unarchiveList", "archiveCard", "unarchiveCard"} =>
         /\ q.method = "PUT"
         /\ q.endpoint = (IF op \in {"archiveList", "unarchiveList"} THEN "/lists/" ELSE "/cards/")
                          \o String(Get(sess[r].a, IF op \in {"archiveList", "unarchiveList"}
                                                   THEN "listId" ELSE "cardId"))
         /\ DOMAIN q.params = {"key", "token", "closed"}
         /\ q.params["closed"] = (IF op \in {"archiveList", "archiveCard"} THEN "true" ELSE "false")
         /\ q.body = NoBody

\* a card has been unarchived with closed=false on the wire
C12_Witness ==
  \E r \in Sent :
    /\ sess[r].op = "unarchiveCard"
    /\ sess[r].sent[1].method = "PUT"
    /\ ParamsOf(r)["closed"] = "false"

\* C13: moveCard is one PUT on the card with idList, with idBoard exactly
\* when a board identifier (a non-empty string) was given, and nothing else.
C13_MoveIsUpdate ==
  \A r \in Sent :
    sess[r].op = "moveCard" =>
      LET q == sess[r].sent[1]
          idBoard == Get(sess[r].a, "idBoard")
          supplied == Defined(idBoard) /\ idBoard # Str("")
      IN /\ Len(sess[r].sent) = 1
         /\ q.method = "PUT"
         /\ q.endpoint = "/cards/" \o String(Get(sess[r].a, "cardId"))
         /\ q.body = NoBody
         /\ DOMAIN q.params = {"key", "token", "idList"}
                               \cup (IF supplied THEN {"idBoard"} ELSE {})
         /\ q.params["idList"] = String(Get(sess[r].a, "idList"))
         /\ supplied => q.params["idBoard"] = String(idBoard)

\* a card has been moved to a list of another board
C13_Witness ==
  \E r \in Sent :
    /\ sess[r].op = "moveCard"
    /\ Truthy(Get(sess[r].a, "idBoard"))
    /\ DOMAIN ParamsOf(r) = {"key", "token", "idList", "idBoard"}

\* the lines of a text: the pieces between its line breaks
Lines(text) ==
  LET P == {i \in 1..Len(text) : SubSeq(text, i, i) = "\n"} \cup {0, Len(text) + 1}
      nth(k) == CHOOSE p \in P : Cardinality({q \in P : q < p}) = k - 1
  IN [k \in 1..(Cardinality(P) - 1) |-> SubSeq(text, nth(k) + 1, nth(k + 1) - 1)]
\* sub occurs in text
Contains(text, sub) ==
  \E i \in 1..(Len(text) - Len(sub) + 1) : SubSeq(text, i, i + Len(sub) - 1) = sub
StartsWith(text, sub) == Len(sub) <= Len(text) /\ SubSeq(text, 1, Len(sub)) = sub
EndsWith(text, sub) ==
  Len(sub) <= Len(text) /\ SubSeq(text, Len(text) - Len(sub) + 1, Len(text)) = sub
\* the cells of a table row: one less than its cell separators, a separator
\* being a bar that no backslash escapes
Cells(line) ==
  Cardinality({i \in 1..Len(line) :
                 /\ SubSeq(line, i, i) = "|"
                 /\ (i = 1 \/ SubSeq(line, i - 1, i - 1) # "\\")}) - 1

\* a list of entityType has been rendered as markdown
RenderedList(entityType) ==
  /\ rend.pc = "rendered" /\ rend.format = "markdown"
  /\ rend.entityType = entityType /\ rend.data.t = "list"

\* C14: a non-empty list of boards rendered as markdown is the title, the
\* count, an empty line, the table header and its rule, and then one row per
\* board in input order, each holding the name and the identifier of its board.
C14_BoardRows ==
  (RenderedList("boards") /\ Len(rend.data.a) > 0) =>
    LET boards == rend.data.a
        L == Lines(rend.envelope.text)
    IN /\ Len(L) = 5 + Len(boards)
       /\ \A i \in 1..Len(boards) :
            /\ Contains(L[5 + i], Prop(boards[i], "name").s)
            /\ Contains(L[5 + i], Prop(boards[i], "id").s)

\* C15: an empty list of any entity kind rendered as markdown is the title
\* and the no-items message, without a table header or a table row.
C15_EmptyMessage ==
  (rend.pc = "rendered" /\ rend.format = "markdown" /\ rend.data = ListV(<<>>)) =>
    LET L == Lines(rend.envelope.text)
    IN /\ Len(L) = 3
       /\ StartsWith(L[1], "## ") /\ L[2] = "" /\ L[3] = "_No items found._"
       /\ ~Contains(rend.envelope.text, "|")
       /\ ~rend.envelope.isError

\* empty lists of boards and of an entity kind without a table of its own
\* have been rendered
C15_Witness ==
  /\ rend.pc = "rendered" /\ rend.format = "markdown" /\ rend.data = ListV(<<>>)
  /\ rend.entityType \in {"boards", "webhooks"}
  /\ rend.envelope.text = "## " \o capitalize(rend.entityType) \o "\n\n_No items found._"

RECURSIVE HeadingLine(_, _)
\* the line the heading of the k-th checklist is on: after the title, the
\* count and an empty line, every checklist takes its heading, its ID line, an
\* empty line, a line per item (one line when it has none) and an empty line
HeadingLine(checklists, k) ==
  IF k = 1 THEN 4
  ELSE LET n == Len(Prop(checklists[k - 1], "checkItems").a)
       IN HeadingLine(checklists, k - 1) + 3 + (IF n = 0 THEN 1 ELSE n) + 1

\* C16: each checklist of a list rendered as markdown has a heading ending in
\* (completed/total), completed being the number of its items in state
\* complete and total the number of its items, and below it one entry per item
\* in item order, checked exactly when the item is complete.
C16_ChecklistCounts ==
  (RenderedList("checklists") /\ Len(rend.data.a) > 0) =>
    LET checklists == rend.data.a
        L == Lines(rend.envelope.text)
    IN /\ Len(L) = HeadingLine(checklists, Len(checklists) + 1) - 1
       /\ \A k \in 1..Len(checklists) :
         LET checkItems == Prop(checklists[k], "checkItems").a
             complete == {j \in 1..Len(checkItems) : Prop(checkItems[j], "state").s = "complete"}
             h == HeadingLine(checklists, k)
         IN /\ h + 2 + Len(checkItems) <= Len(L)
            /\ StartsWith(L[h], "### ")
            /\ EndsWith(L[h], " (" \o ToString(Cardinality(complete)) \o "/"
                              \o ToString(Len(checkItems)) \o ")")
            /\ \A j \in 1..Len(checkItems) :
                 StartsWith(L[h + 2 + j], IF j \in complete THEN "- [x] " ELSE "- [ ] ")

\* two checklists have been rendered, the first with a complete and an
\* incomplete item
C16_Witness ==
  /\ RenderedList("checklists") /\ Len(rend.data.a) = 2
  /\ LET checkItems == Prop(rend.data.a[1], "checkItems").a
     IN /\ Len(checkItems) = 2
        /\ Prop(checkItems[1], "state").s = "complete"
        /\ Prop(checkItems[2], "state").s = "incomplete"
  /\ Contains(rend.envelope.text, "(1/2)")

\* the entity kinds the renderer draws a table for
TableTypes ==
  {"boards", "lists", "cards", "labels", "members", "organizations", "actions", "comments"}

\* C17: every table of the renderer has, below its header and rule, exactly
\* one row per entity, with as many cells as the header, whatever bars and
\* line breaks the text fields of the entities hold.
C17_CellsEscaped ==
  \A entityType \in TableTypes :
    (RenderedList(entityType) /\ Len(rend.data.a) > 0) =>
      LET L == Lines(rend.envelope.text)
      IN /\ Len(L) = 5 + Len(rend.data.a)
         /\ \A i \in 6..Len(L) : Cells(L[i]) = Cells(L[4])

\* C18: formatError of any thrown value returns an error envelope whose text
\* is an object holding the message, which begins with Error: and ends with
\* (retryable) exactly when the error is retryable, and the details.
C18_ErrorEnvelope ==
  rend.pc = "failed" =>
    LET L == Lines(rend.envelope.text)
    IN /\ rend.envelope.returned /\ rend.envelope.isError
       /\ Len(L) >= 4 /\ L[1] = "{"
       /\ StartsWith(L[2], "  \"error\": \"Error: ")
       /\ StartsWith(L[3], "  \"details\": {")
       /\ EndsWith(L[2], " (retryable)\",") <=> Retryable(rend.error)

\* a retryable and a non-retryable error and a value that is no Error have
\* been turned into envelopes
C18_Witness ==
  /\ rend.pc = "failed"
  /\ rend.error = ApiError("Trello API error: ", 500)
  /\ Contains(rend.envelope.text, "(retryable)")

\* the slots whose call has ended on a response of the upstream API
Answered == {r \in Done : sess[r].resp # NoResponse}

\* C19: a response that is not 2xx makes the operation fail with an error of
\* exactly one class: RateLimitError for 429, AuthenticationError for 401 and
\* for every other status an ApiError carrying that status and the raw body.
C19_OtherStatusIsApiError ==
  \A r \in Answered :
    LET resp == sess[r].resp
        e == sess[r].ended
    IN ~Ok(resp.status) =>
         /\ e.kind = "throw"
         /\ e.cls = (IF resp.status = 429 THEN "RateLimitError"
                     ELSE IF resp.status = 401 THEN "AuthenticationError"
                     ELSE "ApiError")
         /\ resp.status \notin {429, 401} =>
              (e.statusCode = resp.status /\ EndsWith(e.message, resp.body))

\* C20: a 2xx response with an empty body ends the operation with the void
\* result and no error; a 2xx response whose body is a JSON text ends it
\* with the deserialized body (testConnection with the summary it makes of
\* it, an operation without output with the void result).
C20_EmptyBodyIsVoid ==
  \A r \in Answered :
    LET resp == sess[r].resp
        e == sess[r].ended
    IN Ok(resp.status) =>
         /\ resp.body = "" => e = Return(Undefined)
         /\ resp.body \in JsonTexts =>
              IF sess[r].op = "testConnection"
              THEN e.kind = "return" /\ Prop(e.value, "connected") = Bool(TRUE)
              ELSE IF sess[r].op \in VoidOps THEN e = Return(Undefined)
              ELSE e = Return(JSONparse(resp.body))

\* ------------------------------------------------------------------------
\* The inbound dispatcher
\* ------------------------------------------------------------------------
\* the slots holding an inbound request that came through the dispatcher
Inbound == {r \in Slots : sess[r].request # NoRequest}
\* the request is a POST to the protocol endpoint
PostMcp(request) == request.pathname = "/mcp" /\ request.method = "POST"
\* the credential headers a request lacks: absent or empty
MissingHeaders(request) ==
  {h \in {"X-Trello-API-Key", "X-Trello-Token"} :
     ~Truthy(IF h = "X-Trello-API-Key" THEN request.apiKey ELSE request.token)}

\* C21: a POST to /mcp that lacks the API-key header or the token header
\* (absent or empty) is answered 401 with a JSON error body naming every
\* missing header; no server or client is built for it and no request goes
\* to the upstream API.
C21_MissingCredentials ==
  \A r \in Inbound :
    LET s == sess[r]
    IN (PostMcp(s.request) /\ MissingHeaders(s.request) # {}) =>
         /\ s.pc = "answered"
         /\ s.http.status = 401
         /\ s.http.contentType = "application/json"
         /\ StartsWith(s.http.body, "{\"error\":\"Unauthorized\",\"message\":\"Missing ")
         /\ \A h \in MissingHeaders(s.request) : Contains(s.http.body, h)
         /\ s.client = NoClient
         /\ s.sent = <<>>

\* a POST to /mcp carrying the API key and an empty token has been answered 401
C21_Witness ==
  \E r \in Inbound :
    /\ sess[r].request = Request("/mcp", "POST", Str("key1"), Str(""))
    /\ sess[r].http.status = 401

\* ------------------------------------------------------------------------
\* Reading a JSON text
\* ------------------------------------------------------------------------
\* the character of text at position i, "" past its end
At(text, i) == IF i >= 1 /\ i <= Len(text) THEN SubSeq(text, i, i) ELSE ""

\* the n characters of text from position i on, "" if it ends before
Word(text, i, n) == IF i >= 1 /\ i + n - 1 <= Len(text) THEN SubSeq(text, i, i + n - 1) ELSE ""

\* the result of reading a value: whether a value was read, the value and the
\* position after it
Parsed(ok, v, i) == [ok |-> ok, v |-> v, i |-> i]
NotParsed == Parsed(FALSE, Undefined, 0)

RECURSIVE skipWhite(_, _)
\* the first position from i on that holds no white space
skipWhite(text, i) ==
  IF At(text, i) \in {" ", "\n"} THEN skipWhite(text, i + 1) ELSE i

RECURSIVE readChars(_, _, _)
\* the characters of a string literal from position i up to its closing quote
readChars(text, i, acc) ==
  LET c == At(text, i)
  IN IF c = "" \/ c = "\n" THEN NotParsed
     ELSE IF c = "\"" THEN Parsed(TRUE, Str(acc), i + 1)
     ELSE IF c = "\\"
     THEN LET e == At(text, i + 1)
          IN IF e = "n" THEN readChars(text, i + 2, acc \o "\n")
             ELSE IF e \in {"\"", "\\"} THEN readChars(text, i + 2, acc \o e)
             ELSE NotParsed
     ELSE readChars(text, i + 1, acc \o c)

RECURSIVE readDigits(_, _, _)
\* the digits from position i on, as a number
readDigits(text, i, acc) ==
  IF IsDigit(At(text, i)) THEN readDigits(text, i + 1, 10 * acc + DigitValue(At(text, i)))
  ELSE Parsed(TRUE, Num(acc), i)

RECURSIVE readValue(_, _)
RECURSIVE readItems(_, _, _)
RECURSIVE readProps(_, _, _)
\* the JSON value that starts at position i
readValue(text, i) ==
  LET c == At(text, i)
  IN IF c = "\"" THEN readChars(text, i + 1, "")
     ELSE IF IsDigit(c) THEN readDigits(text, i, 0)
     ELSE IF Word(text, i, 4) = "true" THEN Parsed(TRUE, Bool(TRUE), i + 4)
     ELSE IF Word(text, i, 5) = "false" THEN Parsed(TRUE, Bool(FALSE), i + 5)
     ELSE IF Word(text, i, 4) = "null" THEN Parsed(TRUE, Null, i + 4)
     ELSE IF c = "["
     THEN LET j == skipWhite(text, i + 1)
          IN IF At(text, j) = "]" THEN Parsed(TRUE, ListV(<<>>), j + 1)
             ELSE readItems(text, j, <<>>)
     ELSE IF c = "{"
     THEN LET j == skipWhite(text, i + 1)
          IN IF At(text, j) = "}" THEN Parsed(TRUE, ObjV(<<>>), j + 1)
             ELSE readProps(text, j, <<>>)
     ELSE NotParsed
\* the items of an array from position i on, after the items of acc
readItems(text, i, acc) ==
  LET item == readValue(text, i)
      j == skipWhite(text, item.i)
  IN IF ~item.ok THEN NotParsed
     ELSE IF At(text, j) = "," THEN readItems(text, skipWhite(text, j + 1), Append(acc, item.v))
     ELSE IF At(text, j) = "]" THEN Parsed(TRUE, ListV(Append(acc, item.v)), j + 1)
     ELSE NotParsed
\* the properties of an object from position i on, after the properties of acc
readProps(text, i, acc) ==
  LET key == IF At(text, i) = "\"" THEN readChars(text, i + 1, "") ELSE NotParsed
      colon == skipWhite(text, key.i)
      value == readValue(text, skipWhite(text, colon + 1))
      j == skipWhite(text, value.i)
  IN IF ~key.ok \/ At(text, colon) # ":" \/ ~value.ok THEN NotParsed
     ELSE IF At(text, j) = ","
     THEN readProps(text, skipWhite(text, j + 1), Append(acc, <<key.v.s, value.v>>))
     ELSE IF At(text, j) = "}" THEN Parsed(TRUE, ObjV(Append(acc, <<key.v.s, value.v>>)), j + 1)
     ELSE NotParsed

\* the value a text is the JSON of, if it is the JSON of a value
readJson(text) ==
  LET r == readValue(text, skipWhite(text, 1))
  IN IF r.ok /\ skipWhite(text, r.i) = Len(text) + 1 THEN r ELSE NotParsed

\* a value has been rendered as json
RenderedJson == rend.pc = "rendered" /\ rend.format = "json"

\* C22: formatResponse with format json returns, for every value and entity
\* kind, a non-error envelope whose text is JSON that reads back as the value
\* it was given: every field of every entity unchanged, lists in their order.
C22_JsonRoundTrip ==
  RenderedJson =>
    /\ rend.envelope.returned /\ ~rend.envelope.isError
    /\ readJson(rend.envelope.text).ok
    /\ readJson(rend.envelope.text).v = rend.data

\* the same for the values that are not undefined
C22_DefinedRoundTrip ==
  (RenderedJson /\ rend.data.t # "undefined") =>
    /\ rend.envelope.returned /\ ~rend.envelope.isError
    /\ readJson(rend.envelope.text).ok
    /\ readJson(rend.envelope.text).v = rend.data

PosOps ==
  {"createList", "updateList", "createCard", "updateCard", "createChecklist",
   "createCheckItem", "updateCheckItem", "createCustomField", "updateCustomField"}

\* the text of a position: the token itself, a number in decimal digits
PosText(pos) == IF pos.t = "string" THEN pos.s ELSE ToString(pos.n)

\* C24: a create or update operation given a position (top, bottom or a
\* number, 0 included) sends it as the parameter pos, holding the token or
\* the decimal digits of the number as they were given.
C24_PosVerbatim ==
  \A r \in Sent :
    (sess[r].op \in PosOps /\ Defined(Get(sess[r].a, "pos"))) =>
      /\ Len(sess[r].sent) = 1
      /\ "pos" \in DOMAIN ParamsOf(r)
      /\ ParamsOf(r)["pos"] = PosText(sess[r].a.pos)

\* a list is created at position 0, and pos=0 is on the wire
C24_Witness ==
  \E r \in Sent :
    /\ sess[r].op = "createList"
    /\ Get(sess[r].a, "pos") = Num(0)
    /\ ParamsOf(r)["pos"] = "0"

\* ------------------------------------------------------------------------
\* Limits
\* ------------------------------------------------------------------------
\* the decimal texts of the numbers lo..hi
Decimals(lo, hi) == {ToString(i) : i \in lo..hi}

C25_ToolLimitsBounded ==
  \A r \in Slots :
    Len(sess[r].sent) > 0 =>
      /\ sess[r].op = "getBoardActions" =>
           sess[r].sent[1].params["limit"] \in Decimals(1, 1000)
      /\ sess[r].op = "searchMembers" =>
           sess[r].sent[1].params["limit"] \in Decimals(1, 20)

\* ------------------------------------------------------------------------
\* A single checklist
\* ------------------------------------------------------------------------
\* a single entity of entityType has been rendered as markdown
RenderedOne(entityType) ==
  /\ rend.pc = "rendered" /\ rend.format = "markdown"
  /\ rend.entityType = entityType /\ rend.data.t = "object"

Without(a, f) == [k \in DOMAIN a \ {f} |-> a[k]]

\* the update operations
UpdateOps ==
  {"updateBoard", "updateList", "updateCard", "updateComment", "updateLabel", "updateChecklist",
   "updateCheckItem", "updateCustomField", "updateOrganization", "updateWebhook"}

\* the optional fields the update in slot r was given as the empty string or
\* null
EmptyFields(r) ==
  IF sess[r].op \in UpdateOps
  THEN {f \in DOMAIN sess[r].a \cap Optional(sess[r].op) : sess[r].a[f] \in {Str(""), Null}}
  ELSE {}

C28_DelayIsNatural ==
  \A r \in Done :
    sess[r].resp.status = 429 =>
      /\ sess[r].requested.cls = "RateLimitError"
      /\ ~sess[r].requested.retryAfter.nan
      /\ sess[r].requested.retryAfter.n \in Nat

\* the same for the headers that are absent, empty or decimal digits
C28_DigitsDelayIsNatural ==
  \A r \in Done :
    (/\ sess[r].resp.status = 429
     /\ LET h == sess[r].resp.retryAfter
        IN ~h.present \/ Len(h.chars) = 0 \/ AllDigits(h.chars)) =>
      /\ sess[r].requested.cls = "RateLimitError"
      /\ ~sess[r].requested.retryAfter.nan
      /\ sess[r].requested.retryAfter.n \in Nat

\* ------------------------------------------------------------------------
\* The order of the dispatcher
\* ------------------------------------------------------------------------
\* C29: every inbound request has one outcome, decided in this order: the
\* path /health gets the static OK payload whatever its method and headers; a
\* POST to /mcp gets the credential check (401, or a server of its own); the
\* path /sse gets 501; everything else, a GET of /mcp included, gets the info
\* page with status 200. Only a POST to /mcp has its credential headers read,
\* a client built or a request sent upstream.
C29_DispatchOrder ==
  \A r \in Inbound :
    LET s == sess[r]
        q == s.request
    IN /\ IF q.pathname = "/health"
          THEN /\ s.pc = "answered"
               /\ s.http = HttpResponse(200, "application/json",
                                        "{\"status\":\"ok\",\"server\":\"primrose-mcp-trello\"}")
          ELSE IF PostMcp(q)
          THEN IF MissingHeaders(q) = {}
               THEN /\ s.pc \in {"ready", "awaiting", "done"}
                    /\ s.http = NoHttp
                    /\ s.client.credentials = [apiKey |-> q.apiKey.s, token |-> q.token.s]
               ELSE s.pc = "answered" /\ s.http.status = 401
          ELSE IF q.pathname = "/sse"
          THEN s.pc = "answered" /\ s.http.status = 501
          ELSE /\ s.pc = "answered"
               /\ s.http.status = 200
               /\ StartsWith(s.http.body, "{\"name\":\"primrose-mcp-trello\",\"version\":\"1.0.0\",")
       /\ ~PostMcp(q) =>
            /\ s.headers = NoCredentials
            /\ s.client = NoClient
            /\ s.sent = <<>>

\* a GET of /mcp carrying both credential headers has been answered with the
\* info page
C29_Witness ==
  \E r \in Inbound :
    /\ sess[r].request = Request("/mcp", "GET", Str("key1"), Str("tok1"))
    /\ sess[r].pc = "answered"
    /\ sess[r].http.status = 200
    /\ Contains(sess[r].http.body, "available_tools")

\* ------------------------------------------------------------------------
\* One envelope per tool call
\* ------------------------------------------------------------------------
\* the slots whose tool call has ended
ToolDone == {r \in Done : sess[r].tool # ""}

\* C30: once the request of a tool call has been answered or has failed, the
\* handler has returned an envelope: an error envelope when the operation
\* threw (a classified error, a network failure or a parse failure), a success
\* envelope when it returned; nothing escapes the handler.
C30_OneEnvelope ==
  \A r \in ToolDone :
    /\ sess[r].envelope.returned
    /\ sess[r].envelope.text # ""
    /\ sess[r].ended.kind \in {"return", "throw"}
    /\ sess[r].envelope.isError <=> sess[r].ended.kind = "throw"

\* a tool call whose response was no JSON has ended with an error envelope
C30_Witness ==
  \E r \in ToolDone :
    /\ sess[r].tool = "trello_update_card"
    /\ sess[r].resp.status = 200 /\ sess[r].resp.body = NotJson
    /\ sess[r].ended.cls = "SyntaxError"
    /\ sess[r].envelope.returned /\ sess[r].envelope.isError

====
